---- MODULE Spec2Model ----
(***************************************************************************)
(* A model of pyintellicenter: the legacy flow-controlled protocol         *)
(* (protocol.py), the Future-based connection (connection.py), the         *)
(* controller's write path (controller.py) and the reconnecting            *)
(* ICConnectionHandler (controller.py).                                    *)
(*                                                                         *)
(* Each component has its own specification over its own variables; the    *)
(* variables of the other components keep their constructor values.        *)
(***************************************************************************)
EXTENDS Integers, Sequences, FiniteSets, TLC

(***************************************************************************)
(* Program constants                                                       *)
(***************************************************************************)
MAX_QUEUE_SIZE == 100
HEARTBEAT_INTERVAL == 30
FLOW_CONTROL_TIMEOUT == 45
KEEPALIVE_INTERVAL == 90
CONNECTION_IDLE_TIMEOUT == 300
MAX_MISSED_KEEPALIVES == 3
DEFAULT_RECONNECT_DELAY == 30
DEFAULT_DISCONNECT_DEBOUNCE == 15
MAX_RECONNECT_DELAY == 600
CIRCUIT_BREAKER_FAILURES == 5
CIRCUIT_BREAKER_RESET_TIME == 300

(***************************************************************************)
(* Bounds of the model                                                     *)
(***************************************************************************)
\* message IDs handed out per connection of the legacy protocol
MaxMsgs == 4
\* callers of the controller's write path, each issuing one set-state call
NCallers == 3

\* coroutines of the handler (starter_with_signal, _starter) alive at a time
MaxTasks == 2
\* transports left open by failed or superseded controller.start() calls
MaxLeaked == 1
\* controller.start() calls the environment lets fail in one run
MaxFailures == 6
\* connections the environment breaks in one run
MaxLosses == 2

\* granularity of the passage of time in the legacy protocol: half a
\* heartbeat sleep
TimeStep == HEARTBEAT_INTERVAL \div 2

None == 0

Min(a, b) == IF a <= b THEN a ELSE b

VARIABLES
    \* ---- protocol.py ICProtocol
    keepalive_interval,  \* _keepalive_interval
    transport,      \* "none" | "open" | "closing" | "lost"
    msgID,          \* _msgID
    out_pending,    \* _out_pending
    out_queue,      \* _out_queue (FIFO of message IDs)
    kaId,           \* _pending_keepalive_id (None or an ID)
    kaPending,      \* _keepalive_response_pending
    missed,         \* _missed_keepalive_responses
    sinceFC,        \* now - _last_flow_control_activity
    sinceData,      \* now - _last_data_received
    sinceKA,        \* now - _last_keepalive_sent
    sinceTick,      \* time slept by _heartbeat_loop in its current sleep
    wire,           \* the peer: IDs written to the transport and unanswered
    \* ---- history of the protocol's run, read by the properties only
    kaUnanswered,   \* keepalive requests sent since the connection was made
                    \* or a keepalive was answered
    wlog,           \* the IDs written to the transport, in order
    afterReset,     \* a deadlock reset was made and no request sent since
    reconnected,    \* this protocol object replaced an earlier one
    pev             \* what the last step did, see NoEvent

protoVars == <<keepalive_interval, transport, msgID, out_pending, out_queue, kaId, kaPending,
               missed, sinceFC, sinceData, sinceKA, sinceTick, wire,
               kaUnanswered, wlog, afterReset, reconnected, pev>>

VARIABLES
    \* ---- connection.py ICProtocol / ICConnection, controller.py write path
    c_connected,    \* ICProtocol.connected
    c_message_id,   \* ICProtocol._message_id
    c_future,       \* ICProtocol._response_future: [state, msg]
    c_lock,         \* ICConnection._request_lock: the holder (None: free)
    c_waiters,      \* the lock's FIFO of waiting tasks
    c_wire,         \* the peer: request IDs written and unanswered
    tasks,          \* the callers' coroutines (caller i makes the i-th call)
    sent,           \* history: the requests written to the transport
    drainLog,       \* history: per write made after waiting, who waited
    c_protocol,     \* ICConnection._protocol is not None
    pend            \* history: the callers pending when the connection last
                    \* ended, and how it ended ("lost" or "stop")

connVars == <<c_connected, c_message_id, c_future, c_lock, c_waiters, c_wire,
              tasks, sent, drainLog, c_protocol, pend>>

VARIABLES
    \* ---- controller.py ICConnectionHandler
    time_between_reconnects,   \* _time_between_reconnects
    disconnect_debounce_time,  \* _disconnect_debounce_time
    stopped,        \* _stopped
    first_time,     \* _first_time
    is_connected,   \* _is_connected
    failure_count,  \* _failure_count
    sinceFail,      \* time.monotonic() - _last_failure_time (NoTime: None)
    starter_task,   \* _starter_task: None, a live coroutine, or Finished
    htasks,         \* the starter_with_signal / _starter coroutines
    debounce,       \* _disconnect_debounce_task: [ref, live, rem]
    established,    \* the transport of the last successful start() is open
    leaked,         \* open transports of failed or superseded start() calls
    nFailed,        \* controller.start() calls that failed so far
    nLost,          \* connections lost so far
    startCall,      \* "waiting" while a caller of start() awaits the first attempt
    \* ---- history of the handler's run, read by the properties only
    g,              \* see HandlerHistory0
    out             \* see Quiet

handlerVars == <<time_between_reconnects, disconnect_debounce_time, stopped,
                 first_time, is_connected, failure_count, sinceFail,
                 starter_task, htasks, debounce, established, leaked,
                 nFailed, nLost, startCall, g, out>>

VARIABLES
    \* ---- model.py : PoolModel
    objects,        \* PoolModel._objects: object name -> PoolObject
    systemObject,   \* PoolModel._systemObject: name of the object, or "None"
    \* ---- what the last call on the model did, read by the properties only
    last            \* see NoCall

modelVars == <<objects, systemObject, last>>

VARIABLES
    \* ---- data_received of protocol.py and of connection.py
    f_impl,         \* which ICProtocol receives: "protocol" or "connection"
    f_transport,    \* "open" | "closing"
    f_buffer,       \* _lineBuffer / _buffer
    \* ---- history of the reception, read by the properties only
    f_stream,       \* the bytes received so far
    f_lines,        \* the lines handed to the JSON parser so far
    f_msgs,         \* the lines parsed and passed on so far
    f_ev            \* what the last data_received did, see NoReception

framingVars == <<f_impl, f_transport, f_buffer, f_stream, f_lines, f_msgs, f_ev>>

VARIABLES
    \* ---- the batching loop of ICModelController.start
    b_attributes,   \* what is left of attributes: len(items["keys"]) per item
    b_query,        \* query, as the number of keys of each of its items
    b_num,          \* num_attributes
    b_pc,           \* "loop" | "done"
    \* ---- history, read by the properties only
    b_request       \* the objectList of the last RequestParamList sent

batchVars == <<b_attributes, b_query, b_num, b_pc, b_request>>

VARIABLES
    \* ---- connection.py ICConnection and its keepalive task
    k_protocol,     \* ICConnection._protocol is not None
    k_connected,    \* ICProtocol.connected (the transport is open)
    k_task,         \* _keepalive_task: where the coroutine is, see KeepaliveStates
    k_user,         \* a caller's request holds _request_lock
    \* ---- history, read by the properties only
    k_sent,         \* keepalive requests written so far
    k_connects,     \* connect() calls that succeeded so far
    k_callbacks,    \* calls of the disconnect callback so far
    k_ev            \* what the last step was

keepVars == <<k_protocol, k_connected, k_task, k_user, k_sent, k_connects,
              k_callbacks, k_ev>>

VARIABLES
    \* ---- the flow control of protocol.py under any number of requests
    fl_pending,     \* _out_pending
    fl_queue,       \* _out_queue, as the message IDs of the queued requests
    fl_next,        \* the message ID of the next request
    \* ---- history, read by the properties only
    fl_ev           \* what the last call did, see NoFlowCall

flowVars == <<fl_pending, fl_queue, fl_next, fl_ev>>

vars == <<protoVars, connVars, handlerVars, modelVars, framingVars, batchVars,
          keepVars, flowVars>>

(***************************************************************************)
(* protocol.py : ICProtocol                                                *)
(***************************************************************************)

\* msg.get("response") of a message without a response field
NoCode == "None"

\* nothing happened in the last step
NoEvent ==
    [op     |-> "none",   \* the callback or call that ran
     id     |-> None,     \* the message ID it assigned to a request
     wrote  |-> <<>>,     \* the IDs it wrote to the transport
     closed |-> "none",   \* why it closed the transport: "missed" or "idle"
     reset  |-> FALSE,    \* it reset the flow control
     msg_id |-> None,     \* the messageID of the message it processed
     code   |-> NoCode]   \* the response field of the message it processed

\* the keepalive_interval arguments of ICProtocol(...): none, or one longer
\* than the idle window
LongKeepalive == 2 * CONNECTION_IDLE_TIMEOUT
KeepaliveIntervals == {KEEPALIVE_INTERVAL, LongKeepalive}

\* the fields of a new ICProtocol, with its transport and the last callback
ProtoState(tr, ev) ==
    /\ keepalive_interval \in KeepaliveIntervals
    /\ transport = tr
    /\ msgID = 1
    /\ out_pending = 0
    /\ out_queue = <<>>
    /\ kaId = None
    /\ kaPending = FALSE
    /\ missed = 0
    /\ sinceFC = 0
    /\ sinceData = 0
    /\ sinceKA = 0
    /\ sinceTick = 0
    /\ wire = <<>>
    /\ kaUnanswered = 0
    /\ wlog = <<>>
    /\ afterReset = FALSE
    /\ reconnected = FALSE
    /\ pev = ev

\* ICProtocol.__init__
ProtoConstructed == ProtoState("none", NoEvent)

\* the new protocol after its connection_made
ProtoConnected ==
    /\ ProtoState("open", [NoEvent EXCEPT !.op = "connection_made"])
    /\ keepalive_interval = KEEPALIVE_INTERVAL

\* the ages are only compared with their thresholds: they saturate above them
AgeCap(limit) == limit + TimeStep
Older(age, limit) == Min(age + TimeStep, AgeCap(limit))

\* _writeToTransport: the bytes reach the peer only through an open transport
Written(w, id) == IF transport = "open" THEN Append(w, id) ELSE w

\* a sendRequest whose queue takes every request
SendRequestUnbounded(pending, queue, w, id) ==
    IF pending + 1 = 1
    THEN [pending |-> pending + 1, queue |-> queue, wire |-> Written(w, id)]
    ELSE [pending |-> pending + 1, queue |-> Append(queue, id), wire |-> w]

\* a responseReceived that decrements whatever the counter is
ResponseUnguarded(pending, queue, w) ==
    [pending |-> pending - 1,
     queue   |-> IF queue # <<>> THEN Tail(queue) ELSE queue,
     wire    |-> IF queue # <<>> THEN Written(w, Head(queue)) ELSE w]

\* sendRequest: the state after the call, as [pending, queue, wire]
SendRequestResult(pending, queue, w, id) ==
    IF pending + 1 = 1
    THEN [pending |-> pending + 1, queue |-> queue, wire |-> Written(w, id)]
    ELSE IF Len(queue) < MAX_QUEUE_SIZE
         THEN [pending |-> pending + 1, queue |-> Append(queue, id), wire |-> w]
         ELSE [pending |-> pending, queue |-> queue, wire |-> w]

\* responseReceived: the state after the call, as [pending, queue, wire]
ResponseReceivedResult(pending, queue, w) ==
    [pending |-> IF pending > 0 THEN pending - 1 ELSE pending,
     queue   |-> IF queue # <<>> THEN Tail(queue) ELSE queue,
     wire    |-> IF queue # <<>> THEN Written(w, Head(queue)) ELSE w]

NeverIdle(age) == FALSE

\* _heartbeat_loop: time_since_data > CONNECTION_IDLE_TIMEOUT
IdleTooLong(age) == age > CONNECTION_IDLE_TIMEOUT

EveryMessage(response) == TRUE

\* processMessage: "if response:"
IsResponse(response) == response \notin {NoCode, ""}

AnsweredById(pending_id, msg_id, response) ==
    pending_id # None /\ msg_id = pending_id

\* processMessage: self._pending_keepalive_id and msg_id ==
\* self._pending_keepalive_id and response == "200"
KeepaliveAnswered(pending_id, msg_id, response) ==
    pending_id # None /\ msg_id = pending_id /\ response = "200"

SameMsgID(n) == n

\* sendCmd: self._msgID = self._msgID + 1
NextMsgID(n) == n + 1

\* the IDs a call appended to the peer's input
NewlyWritten(before, after) == SubSeq(after, Len(before) + 1, Len(after))

\* connection_made
ConnectionMade ==
    /\ transport = "none"
    /\ transport' = "open"
    /\ msgID' = 1
    /\ sinceFC' = 0
    /\ sinceData' = 0
    /\ sinceKA' = 0
    /\ sinceTick' = 0
    /\ pev' = [NoEvent EXCEPT !.op = "connection_made"]
    /\ UNCHANGED <<keepalive_interval, out_pending, out_queue, kaId, kaPending,
                   missed, wire,
                   kaUnanswered, wlog, afterReset, reconnected>>

\* sendCmd (a caller's request), which calls sendRequest
SendCmd ==
    /\ transport \in {"none", "open", "closing"}
    /\ msgID <= MaxMsgs
    /\ LET r == SendRequestResult(out_pending, out_queue, wire, msgID) IN
        /\ out_pending' = r.pending
        /\ out_queue' = r.queue
        /\ wire' = r.wire
        /\ wlog' = wlog \o NewlyWritten(wire, r.wire)
        /\ pev' = [NoEvent EXCEPT !.op = "sendCmd", !.id = msgID,
                                  !.wrote = NewlyWritten(wire, r.wire)]
    /\ msgID' = NextMsgID(msgID)
    /\ sinceFC' = 0
    /\ afterReset' = FALSE
    /\ UNCHANGED <<keepalive_interval, transport, kaId, kaPending, missed,
                   sinceData, sinceKA,
                   sinceTick, kaUnanswered, reconnected>>

\* data_received + processMessage of one response line: the peer answers the
\* oldest request it has read; code is the "response" field, id the
\* "messageID" field (the request's, or None for any other ID)
ResponseArrives ==
    /\ transport = "open"
    /\ wire # <<>>
    /\ \E code \in {"200", "400"} :
       \E id \in {Head(wire), None} :
        LET r == ResponseReceivedResult(out_pending, out_queue, Tail(wire)) IN
        /\ out_pending' = r.pending
        /\ out_queue' = r.queue
        /\ wire' = r.wire
        /\ wlog' = wlog \o NewlyWritten(Tail(wire), r.wire)
        /\ pev' = [NoEvent EXCEPT !.op = "response",
                                  !.wrote = NewlyWritten(Tail(wire), r.wire),
                                  !.msg_id = id, !.code = code]
        /\ IF KeepaliveAnswered(kaId, id, code)
           THEN /\ kaPending' = FALSE
                /\ missed' = 0
                /\ kaId' = None
                /\ kaUnanswered' = 0
           ELSE UNCHANGED <<kaPending, missed, kaId, kaUnanswered>>
    /\ sinceFC' = 0
    /\ sinceData' = 0
    /\ UNCHANGED <<keepalive_interval, transport, msgID, sinceKA, sinceTick,
                   afterReset,
                   reconnected>>

\* data_received + processMessage of one NotifyList line: msg.get("response")
\* is None; the line may carry any messageID
NotificationArrives ==
    /\ transport = "open"
    /\ \E id \in {kaId, None} :
        LET response == NoCode
            r == IF IsResponse(response)
                 THEN ResponseReceivedResult(out_pending, out_queue, wire)
                 ELSE [pending |-> out_pending, queue |-> out_queue,
                       wire |-> wire]
        IN
        /\ out_pending' = r.pending
        /\ out_queue' = r.queue
        /\ wire' = r.wire
        /\ wlog' = wlog \o NewlyWritten(wire, r.wire)
        /\ sinceFC' = IF IsResponse(response) THEN 0 ELSE sinceFC
        /\ pev' = [NoEvent EXCEPT !.op = "notification",
                                  !.wrote = NewlyWritten(wire, r.wire),
                                  !.msg_id = id, !.code = response]
        /\ IF KeepaliveAnswered(kaId, id, response)
           THEN /\ kaPending' = FALSE
                /\ missed' = 0
                /\ kaId' = None
                /\ kaUnanswered' = 0
           ELSE UNCHANGED <<kaPending, missed, kaId, kaUnanswered>>
    /\ sinceData' = 0
    /\ UNCHANGED <<keepalive_interval, transport, msgID, sinceKA, sinceTick,
                   afterReset, reconnected>>

\* time passes while _heartbeat_loop sleeps
Pass ==
    /\ transport = "open"
    /\ sinceTick + TimeStep <= HEARTBEAT_INTERVAL
    /\ sinceTick' = sinceTick + TimeStep
    /\ sinceFC' = Older(sinceFC, FLOW_CONTROL_TIMEOUT)
    /\ sinceData' = Older(sinceData, CONNECTION_IDLE_TIMEOUT)
    /\ sinceKA' = Older(sinceKA, keepalive_interval)
    /\ pev' = [NoEvent EXCEPT !.op = "sleep"]
    /\ UNCHANGED <<keepalive_interval, transport, msgID, out_pending, out_queue,
                   kaId, kaPending,
                   missed, wire, kaUnanswered, wlog, afterReset, reconnected>>

\* one iteration of _heartbeat_loop after its sleep
Heartbeat ==
    /\ transport = "open"
    /\ sinceTick = HEARTBEAT_INTERVAL
    /\ sinceTick' = 0
    /\ LET missedNow == IF kaPending THEN missed + 1 ELSE missed
           closeMissed == kaPending /\ missedNow >= MAX_MISSED_KEEPALIVES
           sendKA == ~closeMissed /\ sinceKA > keepalive_interval
           s == IF sendKA
                THEN SendRequestResult(out_pending, out_queue, wire, msgID)
                ELSE [pending |-> out_pending, queue |-> out_queue, wire |-> wire]
           fcAge == IF sendKA THEN 0 ELSE sinceFC
           deadlock == ~closeMissed /\ s.pending > 0 /\ fcAge > FLOW_CONTROL_TIMEOUT
           idle == ~closeMissed /\ IdleTooLong(sinceData)
       IN
        /\ sendKA => msgID <= MaxMsgs
        /\ missed' = missedNow
        /\ msgID' = IF sendKA THEN NextMsgID(msgID) ELSE msgID
        /\ kaId' = IF sendKA THEN msgID ELSE kaId
        /\ kaPending' = IF sendKA THEN TRUE ELSE kaPending
        /\ sinceKA' = IF sendKA THEN 0 ELSE sinceKA
        /\ sinceFC' = fcAge
        /\ out_pending' = IF deadlock THEN 0 ELSE s.pending
        /\ out_queue' = IF deadlock THEN <<>> ELSE s.queue
        /\ wire' = s.wire
        /\ transport' = IF closeMissed \/ idle THEN "closing" ELSE transport
        /\ kaUnanswered' = IF sendKA THEN kaUnanswered + 1 ELSE kaUnanswered
        /\ wlog' = wlog \o NewlyWritten(wire, s.wire)
        /\ afterReset' = IF deadlock THEN TRUE
                         ELSE IF sendKA THEN FALSE ELSE afterReset
        /\ pev' = [op     |-> "heartbeat",
                   id     |-> IF sendKA THEN msgID ELSE None,
                   wrote  |-> NewlyWritten(wire, s.wire),
                   closed |-> IF closeMissed THEN "missed"
                              ELSE IF idle THEN "idle" ELSE "none",
                   reset  |-> deadlock,
                   msg_id |-> None,
                   code   |-> NoCode]
    /\ UNCHANGED <<keepalive_interval, sinceData, reconnected>>

\* connection_lost: the peer or transport.close() ended the connection
ConnectionLost ==
    /\ transport \in {"open", "closing"}
    /\ transport' = "lost"
    /\ wire' = <<>>
    /\ pev' = [NoEvent EXCEPT !.op = "connection_lost"]
    /\ UNCHANGED <<keepalive_interval, msgID, out_pending, out_queue, kaId,
                   kaPending, missed,
                   sinceFC, sinceData, sinceKA, sinceTick,
                   kaUnanswered, wlog, afterReset, reconnected>>

\* a reconnect builds a new ICProtocol
NewProtocol ==
    /\ transport = "lost"
    /\ transport' = "none"
    /\ msgID' = 1
    /\ out_pending' = 0
    /\ out_queue' = <<>>
    /\ kaId' = None
    /\ kaPending' = FALSE
    /\ missed' = 0
    /\ sinceFC' = 0
    /\ sinceData' = 0
    /\ sinceKA' = 0
    /\ sinceTick' = 0
    /\ wire' = <<>>
    /\ kaUnanswered' = 0
    /\ wlog' = <<>>
    /\ afterReset' = FALSE
    /\ reconnected' = TRUE
    /\ pev' = [NoEvent EXCEPT !.op = "__init__"]
    /\ UNCHANGED keepalive_interval

(***************************************************************************)
(* connection.py : ICProtocol, ICConnection                                *)
(* controller.py : ICBaseController.send_cmd, request_changes,             *)
(*                 ICModelController.set_circuit_state                     *)
(***************************************************************************)
Callers == 1..NCallers
Objects == {"C001", "C002"}
STATUS_ON == "ON"
STATUS_OFF == "OFF"
STATUS_ATTR == "STATUS"

NoFuture == [state |-> "none", msg |-> None]
IdleTask == [pc |-> "idle", objnam |-> "", value |-> "",
             req |-> None, outcome |-> "none", got |-> None, code |-> ""]

\* ICConnection.__init__ / ICProtocol.__init__, before connect()
ConnConstructed ==
    /\ c_connected = FALSE
    /\ c_message_id = 0
    /\ c_future = NoFuture
    /\ c_lock = None
    /\ c_waiters = <<>>
    /\ c_wire = <<>>
    /\ tasks = [i \in Callers |-> IdleTask]
    /\ sent = <<>>
    /\ drainLog = <<>>
    /\ c_protocol = FALSE
    /\ pend = [why |-> "none", who |-> {}]

\* request_changes: the objectList of the SETPARAMLIST command of one call
RequestChangesObjectList(objnam, changes) ==
    <<[objnam |-> objnam, params |-> changes]>>

\* set_circuit_state: the changes handed to request_changes
CircuitStateChanges(state) ==
    [a \in {STATUS_ATTR} |-> IF state THEN STATUS_ON ELSE STATUS_OFF]

\* the callers suspended in the lock's queue
Waiting == {i \in Callers : tasks[i].pc = "lockwait"}

\* a lock that its holder keeps
LockKept == UNCHANGED <<c_lock, c_waiters>>

\* asyncio.Lock.release: the first waiter is woken and owns the lock next
Release ==
    IF c_waiters = <<>>
    THEN /\ c_lock' = None
         /\ c_waiters' = c_waiters
    ELSE /\ c_lock' = Head(c_waiters)
         /\ c_waiters' = Tail(c_waiters)

\* ICProtocol.send_request up to its await, run by task i holding the lock;
\* t is the task's record on entry, waited the callers that were waiting
\* while the previous holder had the lock (empty when i did not wait)
ProtocolSend(i, t, waited) ==
    IF ~c_protocol
    THEN \* ICConnection.send_request: self._protocol.send_request with
         \* self._protocol = None; the lock is released
         /\ tasks' = [tasks EXCEPT ![i] = [t EXCEPT !.pc = "done",
                                           !.outcome = "AttributeError"]]
         /\ Release
         /\ UNCHANGED <<c_message_id, c_future, c_wire, sent, drainLog>>
    ELSE IF ~c_connected
    THEN \* raise ICConnectionError("Not connected"); the lock is released
         /\ tasks' = [tasks EXCEPT ![i] = [t EXCEPT !.pc = "done",
                                           !.outcome = "ICConnectionError"]]
         /\ Release
         /\ UNCHANGED <<c_message_id, c_future, c_wire, sent, drainLog>>
    ELSE LET id == c_message_id + 1
             ol == RequestChangesObjectList(t.objnam,
                       [a \in {STATUS_ATTR} |-> t.value])
         IN
         /\ c_message_id' = id
         /\ c_future' = [state |-> "pending", msg |-> None]
         /\ c_wire' = Append(c_wire, id)
         /\ sent' = Append(sent, [id |-> id, caller |-> i,
                                  command |-> "SETPARAMLIST", objectList |-> ol])
         /\ drainLog' = IF waited = {} THEN drainLog
                        ELSE Append(drainLog, [by |-> i, objectList |-> ol,
                                               waited |-> waited])
         /\ tasks' = [tasks EXCEPT ![i] = [t EXCEPT !.pc = "awaiting", !.req = id]]
         /\ c_lock' = i
         /\ UNCHANGED c_waiters

\* ICConnection.connect -> create_connection -> ICProtocol.connection_made
Connect ==
    /\ ~c_connected
    /\ \A i \in Callers : tasks[i].pc # "awaiting"
    \* a caller that was handed the lock runs before a connection is made
    /\ \A i \in Callers : ~(tasks[i].pc = "lockwait" /\ c_lock = i)
    /\ c_protocol' = TRUE
    /\ pend' = pend
    /\ c_connected' = TRUE
    /\ c_message_id' = 0
    /\ c_future' = NoFuture
    /\ c_wire' = <<>>
    /\ UNCHANGED <<c_lock, c_waiters, tasks, sent, drainLog>>

\* a caller runs set_circuit_state(objnam, state) -> request_changes ->
\* send_cmd -> ICConnection.send_request, up to its first suspension
SetCircuitState(i, objnam, state) ==
    /\ UNCHANGED <<c_protocol, pend>>
    /\ tasks[i].pc = "idle"
    /\ \A j \in Callers : j < i => tasks[j].pc # "idle"
    /\ LET t == [tasks[i] EXCEPT !.objnam = objnam,
                     !.value = CircuitStateChanges(state)[STATUS_ATTR]]
       IN
       IF ~c_connected
       THEN \* send_cmd: raise ICConnectionError("Not connected")
            /\ tasks' = [tasks EXCEPT ![i] = [t EXCEPT !.pc = "done",
                                              !.outcome = "ICConnectionError"]]
            /\ UNCHANGED <<c_connected, c_message_id, c_future, c_lock, c_waiters,
                           c_wire, sent, drainLog>>
       ELSE IF c_lock # None \/ c_waiters # <<>>
       THEN \* async with self._request_lock: suspended in the lock's queue
            /\ tasks' = [tasks EXCEPT ![i] = [t EXCEPT !.pc = "lockwait"]]
            /\ c_waiters' = Append(c_waiters, i)
            /\ UNCHANGED <<c_connected, c_message_id, c_future, c_lock, c_wire,
                           sent, drainLog>>
       ELSE /\ ProtocolSend(i, t, {})
            /\ UNCHANGED c_connected

\* a woken waiter resumes in "async with self._request_lock"
LockGranted(i) ==
    /\ UNCHANGED <<c_protocol, pend>>
    /\ tasks[i].pc = "lockwait"
    /\ c_lock = i
    /\ ProtocolSend(i, tasks[i], Waiting)
    /\ UNCHANGED c_connected

\* data_received of one response line -> _handle_response: the peer answers
\* the oldest request it has read
ConnResponseArrives ==
    /\ UNCHANGED <<c_protocol, pend>>
    /\ c_connected
    /\ c_wire # <<>>
    /\ \E code \in {"200", "400"} :
        c_future' = IF c_future.state = "pending"
                    THEN [state |-> "result",
                          msg |-> [response |-> code, of |-> Head(c_wire)]]
                    ELSE c_future
    /\ c_wire' = Tail(c_wire)
    /\ UNCHANGED <<c_connected, c_message_id, c_lock, c_waiters, tasks,
                   sent, drainLog>>

\* a send_request that takes every response for a success
AnyResponseOk(msg) == "ok"

\* ICProtocol.send_request on the message of the Future: any code but "200"
\* raises ICResponseError(code), which send_cmd turns into ICCommandError(code)
ResponseOutcome(msg) == IF msg.response # "200" THEN "ICCommandError" ELSE "ok"

\* the awaiting task resumes with the Future's result or exception:
\* the rest of ICProtocol.send_request, ICConnection.send_request and send_cmd
Resume(i) ==
    /\ UNCHANGED <<c_protocol, pend>>
    /\ tasks[i].pc = "awaiting"
    /\ c_future.state \in {"result", "exception"}
    /\ tasks' = [tasks EXCEPT ![i] =
          [@ EXCEPT !.pc = "done",
                    !.outcome = IF c_future.state = "exception"
                                THEN "ICConnectionError"
                                ELSE ResponseOutcome(c_future.msg),
                    !.code = IF c_future.state = "result"
                                  /\ ResponseOutcome(c_future.msg) # "ok"
                             THEN c_future.msg.response ELSE "",
                    !.got = IF c_future.state = "result"
                            THEN c_future.msg.of ELSE None]]
    /\ c_future' = NoFuture
    /\ Release
    /\ UNCHANGED <<c_connected, c_message_id, c_wire, sent, drainLog>>

\* asyncio.timeout(request_timeout) expires while the task awaits the Future
RequestTimeout(i) ==
    /\ UNCHANGED <<c_protocol, pend>>
    /\ tasks[i].pc = "awaiting"
    /\ c_future.state = "pending"
    /\ tasks' = [tasks EXCEPT ![i] = [@ EXCEPT !.pc = "done",
                                               !.outcome = "TimeoutError"]]
    /\ c_future' = NoFuture
    /\ Release
    /\ UNCHANGED <<c_connected, c_message_id, c_wire, sent, drainLog>>

\* the callers whose request has no result yet: in flight with the Future
\* unresolved, or waiting for the lock
PendingCallers ==
    {i \in Callers : \/ tasks[i].pc = "lockwait"
                     \/ tasks[i].pc = "awaiting" /\ c_future.state = "pending"}

\* a connection_lost that leaves the Future as it is
FutureLeftAlone == c_future

\* ICProtocol.connection_lost: the pending Future gets ICConnectionError
FutureOnLoss ==
    IF c_future.state = "pending"
    THEN [state |-> "exception", msg |-> None]
    ELSE c_future

\* ICProtocol.connection_lost, the peer or the network ending the connection
ConnConnectionLost ==
    /\ c_connected
    /\ c_connected' = FALSE
    /\ c_future' = FutureOnLoss
    /\ c_wire' = <<>>
    /\ pend' = [why |-> "lost", who |-> PendingCallers]
    /\ UNCHANGED <<c_message_id, c_lock, c_waiters, tasks, sent, drainLog,
                   c_protocol>>

\* ICBaseController.stop -> ICConnection.disconnect: ICProtocol.close(), the
\* connection_lost call that transport.close() brings, self._protocol = None
Disconnect ==
    /\ c_protocol
    /\ c_protocol' = FALSE
    /\ c_connected' = FALSE
    /\ c_future' = IF c_connected THEN FutureOnLoss ELSE c_future
    /\ c_wire' = <<>>
    /\ pend' = [why |-> "stop", who |-> PendingCallers]
    /\ UNCHANGED <<c_message_id, c_lock, c_waiters, tasks, sent, drainLog>>

(***************************************************************************)
(* controller.py : ICConnectionHandler                                     *)
(*                                                                         *)
(* A coroutine runs without interruption from one suspension (an await     *)
(* that blocks) to the next; each action is one such run.  Time is kept    *)
(* as the remaining time of every pending asyncio.sleep.                   *)
(***************************************************************************)
NoTime == -1
Finished == -1
HTasks == 1..MaxTasks
Bases == {0, 1, DEFAULT_RECONNECT_DELAY}
Debounces == {DEFAULT_DISCONNECT_DEBOUNCE}
CaughtErrors == {"ICConnectionError", "ICCommandError", "TimeoutError"}

FreeTask == [pc |-> "free", kind |-> "none", delay |-> 0, idelay |-> 0,
             rem |-> 0, prev |-> NoTime]
NoDebounce == [ref |-> FALSE, live |-> FALSE, rem |-> 0]

\* what the run so far amounts to (history only; no guard reads it)
HandlerHistory0 ==
    [down    |-> FALSE,  \* a disconnect was notified since the last success
     emitted |-> 0,      \* on_disconnected calls in this outage (up to 2)
     everUp  |-> FALSE,  \* some controller.start() succeeded
     consecFails  |-> 0,      \* failed attempts in a row (up to 6)
     sinceFailure |-> NoTime, \* time since the last of them (up to 300)
     attempts     |-> 0]      \* controller.start() calls while start() waits

\* what the last step did (history only; no guard reads it)
Quiet ==
    [cb |-> "none",        \* "started", "reconnected", "silent" (a success
                           \* firing nothing), "disconnected", "expired" (a
                           \* debounce timer firing nothing)
     down |-> FALSE,       \* history.down before the step
     emitted |-> FALSE,    \* history.emitted > 0 before the step
     first |-> FALSE,      \* the step is the first success
     cancelled |-> FALSE,  \* the step cancelled a debounce timer before its time
     began |-> FALSE,      \* the step called controller.start()
     fails |-> 0,          \* ... after that many failures in a row
     gap |-> NoTime,       \* ... that long after the last of them
     ret |-> "none",       \* start() "returned" or "raised"
     retAttempts |-> 0,    \* ... after that many controller.start() calls
     firstOutcome |-> "none", \* ... the first of which ended so
     retrying |-> FALSE,   \* the step called on_retrying
     failed |-> FALSE]     \* the step is a controller.start() that raised

\* ICConnectionHandler.__init__
HandlerConstructed ==
    /\ time_between_reconnects \in Bases
    /\ disconnect_debounce_time \in Debounces
    /\ stopped = FALSE
    /\ first_time = TRUE
    /\ is_connected = FALSE
    /\ failure_count = 0
    /\ sinceFail = NoTime
    /\ starter_task = None
    /\ htasks = [k \in HTasks |-> FreeTask]
    /\ debounce = NoDebounce
    /\ established = FALSE
    /\ leaked = 0
    /\ nFailed = 0
    /\ nLost = 0
    /\ startCall = "none"
    /\ g = HandlerHistory0
    /\ out = Quiet

\* the handler with the default configuration
HandlerDefault ==
    /\ time_between_reconnects = DEFAULT_RECONNECT_DELAY
    /\ disconnect_debounce_time = DEFAULT_DISCONNECT_DEBOUNCE

FreeSlots == {k \in HTasks : htasks[k].pc = "free"}
NewSlot == CHOOSE k \in FreeSlots : \A j \in FreeSlots : k <= j

Cap(n, m) == IF n > m THEN m ELSE n

\* delay = min(int(delay * 1.5), MAX_RECONNECT_DELAY)
NextDelay(delay) == Min((delay * 3) \div 2, MAX_RECONNECT_DELAY)

\* the check "time.monotonic() - _last_failure_time > CIRCUIT_BREAKER_RESET_TIME":
\* the clock is read after at least one sleep, so a sleep of exactly the
\* reset time already makes the difference larger
ResetDue(sf) == sf # NoTime /\ sf >= CIRCUIT_BREAKER_RESET_TIME

\* the circuit breaker test of _starter
BreakerOpen(fc) == fc >= CIRCUIT_BREAKER_FAILURES

\* _starter from "if initial_delay:" to its next await; began tells whether
\* controller.start() was called
AfterBreaker(t, fc, sf) ==
    IF t.idelay # 0
    THEN [task |-> [t EXCEPT !.pc = "initsleep", !.rem = t.idelay],
          fc |-> fc, sf |-> sf, began |-> FALSE]
    ELSE [task |-> [t EXCEPT !.pc = "connecting", !.rem = 0],
          fc |-> fc, sf |-> sf, began |-> TRUE]

\* _starter from "while not self._stopped:" to its next await
LoopTop(t, fc, sf) ==
    IF stopped
    THEN [task |-> FreeTask, fc |-> fc, sf |-> sf, began |-> FALSE]
    ELSE LET fc1 == IF ResetDue(sf) THEN 0 ELSE fc
             sf1 == IF ResetDue(sf) THEN NoTime ELSE sf
         IN IF BreakerOpen(fc1)
            THEN [task |-> [t EXCEPT !.pc = "cbsleep",
                                     !.rem = CIRCUIT_BREAKER_RESET_TIME],
                  fc |-> fc1, sf |-> sf1, began |-> FALSE]
            ELSE AfterBreaker(t, fc1, sf1)

\* history: controller.start() is called (if began)
HistBegin(began, h) ==
    IF ~began THEN h
    ELSE [h EXCEPT !.attempts = IF startCall = "waiting" THEN Cap(@ + 1, 3) ELSE 0,
                   !.consecFails = IF @ >= CIRCUIT_BREAKER_FAILURES THEN 0 ELSE @]
OutBegin(began, h, o) ==
    IF ~began THEN o
    ELSE [o EXCEPT !.began = TRUE, !.fails = h.consecFails, !.gap = h.sinceFailure]

\* on_retrying is called right before the sleeps of _starter that precede an
\* attempt: t is the coroutine as the step leaves it
OutRetrying(t, o) ==
    IF t.pc \in {"initsleep", "failsleep"} THEN [o EXCEPT !.retrying = TRUE] ELSE o

\* history: controller.start() failed
HistFailure(h) ==
    [h EXCEPT !.consecFails = Cap(@ + 1, CIRCUIT_BREAKER_FAILURES + 1),
              !.sinceFailure = 0]

\* history: controller.start() succeeded
HistSuccess(h) ==
    [h EXCEPT !.consecFails = 0, !.sinceFailure = NoTime, !.everUp = TRUE,
              !.down = FALSE, !.emitted = 0]
OutSuccess(h, cb, cancelled) ==
    [Quiet EXCEPT !.cb = cb, !.down = h.down, !.emitted = (h.emitted > 0),
                  !.first = ~h.everUp, !.cancelled = cancelled]

\* a debounce timer is pending and its time is not over
DebouncePending == debounce.live /\ debounce.rem > 0

\* history: start() returns to its caller after h.attempts attempts
HistReturn(h) == [h EXCEPT !.attempts = 0]
OutReturn(h, o, ret, outcome) ==
    [o EXCEPT !.ret = ret, !.retAttempts = h.attempts, !.firstOutcome = outcome]

\* the task's reference in _starter_task once the coroutine has ended
Ended(k) == IF starter_task = k THEN Finished ELSE starter_task

\* ---- ICConnectionHandler.start()
Start ==
    /\ ~stopped
    /\ startCall # "waiting"
    /\ IF starter_task # None
       THEN \* "if not self._starter_task:" is false: nothing is done
            /\ out' = OutReturn([g EXCEPT !.attempts = 0], Quiet, "returned", "none")
            /\ UNCHANGED <<starter_task, htasks, startCall>>
       ELSE /\ FreeSlots # {}
            /\ htasks' = [htasks EXCEPT ![NewSlot] =
                            [FreeTask EXCEPT !.pc = "created", !.kind = "signal"]]
            /\ starter_task' = NewSlot
            /\ startCall' = "waiting"
            /\ out' = Quiet
    /\ g' = [g EXCEPT !.attempts = 0]
    /\ UNCHANGED <<nFailed, nLost>>
    /\ UNCHANGED <<time_between_reconnects, disconnect_debounce_time, stopped,
                   first_time, is_connected, failure_count, sinceFail, debounce,
                   established, leaked>>

\* a new coroutine runs to its first await
TaskRuns(k) ==
    /\ htasks[k].pc = "created"
    /\ LET r == IF htasks[k].kind = "signal"
                THEN \* starter_with_signal: await self._controller.start()
                     [task |-> [htasks[k] EXCEPT !.pc = "connecting"],
                      fc |-> failure_count, sf |-> sinceFail, began |-> TRUE]
                ELSE LoopTop(htasks[k], failure_count, sinceFail)
       IN
       /\ htasks' = [htasks EXCEPT ![k] = r.task]
       /\ failure_count' = r.fc
       /\ sinceFail' = r.sf
       /\ g' = HistBegin(r.began, g)
       /\ out' = OutRetrying(r.task, OutBegin(r.began, g, Quiet))
       /\ starter_task' = IF r.task.pc = "free" THEN Ended(k) ELSE starter_task
    /\ UNCHANGED <<nFailed, nLost>>
    /\ UNCHANGED <<time_between_reconnects, disconnect_debounce_time, stopped,
                   first_time, is_connected, debounce, established, leaked,
                   startCall>>

\* controller.start(): ICConnection.connect() succeeds, the first request is sent
TcpConnected(k) ==
    /\ htasks[k].pc = "connecting"
    /\ htasks' = [htasks EXCEPT ![k].pc = "requesting"]
    /\ out' = Quiet
    /\ UNCHANGED <<nFailed, nLost>>
    /\ UNCHANGED <<time_between_reconnects, disconnect_debounce_time, stopped,
                   first_time, is_connected, failure_count, sinceFail,
                   starter_task, debounce, established, leaked, startCall, g>>

\* the except clause of _starter, up to "await asyncio.sleep(delay)"
StarterFailed(t) ==
    [t EXCEPT !.pc = "failsleep", !.rem = t.delay]

\* what a step that is a failed controller.start() did, so far
Failed == [Quiet EXCEPT !.failed = TRUE]

\* controller.start() raises err in coroutine k; open tells whether the
\* attempt leaves a transport open
AttemptFails(k, err, open) ==
    LET t == htasks[k]
        caught == err \in CaughtErrors
        hf == HistFailure(g)
    IN
    /\ nFailed < MaxFailures
    /\ nFailed' = nFailed + 1
    /\ nLost' = nLost
    /\ leaked' = IF open THEN leaked + 1 ELSE leaked
    /\ IF ~caught
       THEN \* not in the except clause: the coroutine ends with the error
            /\ htasks' = [htasks EXCEPT ![k] = FreeTask]
            /\ starter_task' = Ended(k)
            /\ startCall' = IF t.kind = "signal" THEN "none" ELSE startCall
            /\ g' = IF t.kind = "signal" THEN HistReturn(hf) ELSE hf
            /\ out' = IF t.kind = "signal"
                      THEN OutReturn(hf, Failed, "returned", "uncaught")
                      ELSE Failed
            /\ UNCHANGED <<failure_count, sinceFail>>
       ELSE IF t.kind = "signal"
       THEN \* first_attempt_error = err; first_attempt_done.set();
            \* await self._starter(initial_delay=self._time_between_reconnects)
            LET r == LoopTop([t EXCEPT !.kind = "starter",
                                       !.delay = time_between_reconnects,
                                       !.idelay = time_between_reconnects],
                             failure_count, sinceFail)
                hb == HistBegin(r.began, hf)
            IN
            /\ htasks' = [htasks EXCEPT ![k] = r.task]
            /\ failure_count' = r.fc
            /\ sinceFail' = r.sf
            /\ starter_task' = IF r.task.pc = "free" THEN Ended(k) ELSE starter_task
            /\ startCall' = "none"
            /\ g' = HistReturn(hb)
            /\ out' = OutRetrying(r.task, OutReturn(hb, OutBegin(r.began, hf, Failed),
                                                "raised", "caught"))
       ELSE /\ htasks' = [htasks EXCEPT ![k] = StarterFailed(t)]
            /\ failure_count' = failure_count + 1
            /\ sinceFail' = 0
            /\ g' = hf
            /\ out' = OutRetrying(StarterFailed(t), Failed)
            /\ UNCHANGED <<starter_task, startCall>>
    /\ UNCHANGED <<time_between_reconnects, disconnect_debounce_time, stopped,
                   first_time, is_connected, debounce, established>>

\* ICConnection.connect() fails (refused, timed out)
ConnectFails(k) ==
    /\ htasks[k].pc = "connecting"
    /\ AttemptFails(k, "ICConnectionError", FALSE)

\* a request of controller.start() fails on the open connection: an error
\* response, a timeout, or a reply without the expected fields
RequestFails(k, err) ==
    /\ htasks[k].pc = "requesting"
    /\ leaked < MaxLeaked
    /\ AttemptFails(k, err, TRUE)

\* the request of controller.start() fails because its connection was lost
LostRequestFails(k) ==
    /\ htasks[k].pc = "lostreq"
    /\ AttemptFails(k, "ICConnectionError", FALSE)

\* a _starter that fires on_reconnected whatever _is_connected says
AlwaysReconnected == TRUE

\* "elif not self._is_connected:" of _starter
FiresReconnected == ~is_connected

\* controller.start() returns in coroutine k
AttemptSucceeds(k) ==
    LET t == htasks[k]
        cb == IF first_time THEN "started"
              ELSE IF t.kind = "starter" /\ FiresReconnected THEN "reconnected"
              ELSE "silent"
        o == OutSuccess(g, cb, t.kind = "starter" /\ DebouncePending)
    IN
    /\ t.pc = "requesting"
    /\ established => leaked < MaxLeaked
    /\ leaked' = IF established THEN leaked + 1 ELSE leaked
    /\ established' = TRUE
    /\ failure_count' = 0
    /\ sinceFail' = NoTime
    /\ debounce' = IF t.kind = "starter" THEN NoDebounce ELSE debounce
    /\ first_time' = FALSE
    /\ is_connected' = TRUE
    /\ starter_task' = None
    /\ htasks' = [htasks EXCEPT ![k] = FreeTask]
    /\ startCall' = IF t.kind = "signal" THEN "none" ELSE startCall
    /\ g' = IF t.kind = "signal" THEN HistReturn(HistSuccess(g)) ELSE HistSuccess(g)
    /\ out' = IF t.kind = "signal" THEN OutReturn(g, o, "returned", "ok") ELSE o
    /\ UNCHANGED <<nFailed, nLost>>
    /\ UNCHANGED <<time_between_reconnects, disconnect_debounce_time, stopped>>

\* an asyncio.sleep of coroutine k is over; the coroutine runs to its next await
Wakes(k) ==
    LET t == htasks[k]
        r == CASE t.pc = "cbsleep" ->
                    AfterBreaker(t, 0, sinceFail)
               [] t.pc = "initsleep" ->
                    AfterBreaker([t EXCEPT !.idelay = 0, !.prev = t.idelay],
                                 failure_count, sinceFail)
               [] OTHER ->
                    LoopTop([t EXCEPT !.delay = NextDelay(t.delay), !.prev = t.delay],
                            failure_count, sinceFail)
    IN
    /\ t.pc \in {"cbsleep", "initsleep", "failsleep"}
    /\ t.rem = 0
    /\ htasks' = [htasks EXCEPT ![k] = r.task]
    /\ failure_count' = r.fc
    /\ sinceFail' = r.sf
    /\ starter_task' = IF r.task.pc = "free" THEN Ended(k) ELSE starter_task
    /\ g' = HistBegin(r.began, g)
    /\ out' = OutRetrying(r.task, OutBegin(r.began, g, Quiet))
    /\ UNCHANGED <<nFailed, nLost>>
    /\ UNCHANGED <<time_between_reconnects, disconnect_debounce_time, stopped,
                   first_time, is_connected, debounce, established, leaked,
                   startCall>>

\* the coroutine _on_disconnect creates: self._starter(initial_delay=...)
NewStarter ==
    [FreeTask EXCEPT !.pc = "created", !.kind = "starter",
                     !.delay = time_between_reconnects,
                     !.idelay = time_between_reconnects]

\* _on_disconnect, called by the connection whose transport was lost; ts is
\* the coroutines as the loss leaves them
OnDisconnect(ts) ==
    IF stopped
    THEN /\ htasks' = ts
         /\ UNCHANGED <<is_connected, debounce, starter_task, g>>
    ELSE /\ FreeSlots # {}
         /\ is_connected' = FALSE
         /\ debounce' = [ref |-> TRUE, live |-> TRUE, rem |-> disconnect_debounce_time]
         /\ htasks' = [ts EXCEPT ![NewSlot] = NewStarter]
         /\ starter_task' = NewSlot
         /\ g' = [g EXCEPT !.down = TRUE]

\* the established connection is lost
EstablishedLost ==
    /\ established
    /\ nLost < MaxLosses
    /\ nLost' = nLost + 1
    /\ nFailed' = nFailed
    /\ established' = FALSE
    /\ OnDisconnect(htasks)
    /\ out' = Quiet
    /\ UNCHANGED <<time_between_reconnects, disconnect_debounce_time, stopped,
                   first_time, failure_count, sinceFail, leaked, startCall>>

\* a connection left open by an earlier controller.start() is lost
LeakedLost ==
    /\ leaked > 0
    /\ nLost < MaxLosses
    /\ nLost' = nLost + 1
    /\ nFailed' = nFailed
    /\ leaked' = leaked - 1
    /\ OnDisconnect(htasks)
    /\ out' = Quiet
    /\ UNCHANGED <<time_between_reconnects, disconnect_debounce_time, stopped,
                   first_time, failure_count, sinceFail, established, startCall>>

\* the connection of a running controller.start() is lost
AttemptLost(k) ==
    /\ htasks[k].pc = "requesting"
    /\ nLost < MaxLosses
    /\ nLost' = nLost + 1
    /\ nFailed' = nFailed
    /\ OnDisconnect([htasks EXCEPT ![k].pc = "lostreq"])
    /\ out' = Quiet
    /\ UNCHANGED <<time_between_reconnects, disconnect_debounce_time, stopped,
                   first_time, failure_count, sinceFail, established, leaked,
                   startCall>>

\* a _delayed_disconnect that reports whatever _is_connected says
AlwaysDown == TRUE

\* "if not self._is_connected:" of _delayed_disconnect
StillDown == ~is_connected

\* _delayed_disconnect after its sleep
DebounceExpires ==
    /\ debounce.live
    /\ debounce.rem = 0
    /\ debounce' = [debounce EXCEPT !.live = FALSE]
    /\ g' = IF StillDown THEN [g EXCEPT !.emitted = Cap(@ + 1, 2)] ELSE g
    /\ out' = [Quiet EXCEPT !.cb = IF StillDown THEN "disconnected" ELSE "expired",
                            !.down = g.down, !.emitted = (g.emitted > 0)]
    /\ UNCHANGED <<nFailed, nLost>>
    /\ UNCHANGED <<time_between_reconnects, disconnect_debounce_time, stopped,
                   first_time, is_connected, failure_count, sinceFail,
                   starter_task, htasks, established, leaked, startCall>>

\* stop(), with the _stop_controller task it spawns
Stop ==
    /\ ~stopped
    /\ stopped' = TRUE
    /\ LET k == starter_task
           live == k \in HTasks
           t == htasks[k]
           waited == live /\ t.kind = "signal"
       IN
       /\ htasks' = IF live THEN [htasks EXCEPT ![k] = FreeTask] ELSE htasks
       /\ leaked' = IF live /\ t.pc = "requesting" THEN Cap(leaked + 1, MaxLeaked)
                    ELSE leaked
       /\ startCall' = IF waited THEN "none" ELSE startCall
       /\ g' = IF waited THEN HistReturn(g) ELSE g
       /\ out' = IF waited THEN OutReturn(g, Quiet, "returned", "cancelled") ELSE Quiet
    /\ starter_task' = None
    /\ debounce' = NoDebounce
    /\ established' = FALSE
    /\ UNCHANGED <<nFailed, nLost>>
    /\ UNCHANGED <<time_between_reconnects, disconnect_debounce_time, first_time,
                   is_connected, failure_count, sinceFail>>

\* the sleeping coroutines and the pending debounce timer
Sleepers == {k \in HTasks : htasks[k].pc \in {"cbsleep", "initsleep", "failsleep"}}
Timers == {htasks[k].rem : k \in Sleepers} \cup
          (IF debounce.live THEN {debounce.rem} ELSE {})
Ready == {k \in HTasks : htasks[k].pc \in {"created", "lostreq"}}

\* time passes until the next sleep is over
Advance ==
    /\ Timers # {}
    /\ Ready = {}
    /\ LET d == CHOOSE x \in Timers : \A y \in Timers : x <= y IN
       /\ d > 0
       /\ htasks' = [k \in HTasks |->
                       IF k \in Sleepers
                       THEN [htasks[k] EXCEPT !.rem = @ - d] ELSE htasks[k]]
       /\ debounce' = IF debounce.live THEN [debounce EXCEPT !.rem = @ - d]
                      ELSE debounce
       /\ sinceFail' = IF sinceFail = NoTime THEN NoTime
                       ELSE Cap(sinceFail + d, CIRCUIT_BREAKER_RESET_TIME)
       /\ g' = [g EXCEPT !.sinceFailure =
                   IF @ = NoTime THEN NoTime
                   ELSE Cap(@ + d, CIRCUIT_BREAKER_RESET_TIME)]
    /\ out' = Quiet
    /\ UNCHANGED <<nFailed, nLost>>
    /\ UNCHANGED <<time_between_reconnects, disconnect_debounce_time, stopped,
                   first_time, is_connected, failure_count, starter_task,
                   established, leaked, startCall>>

(***************************************************************************)
(* model.py : PoolObject, PoolModel                                        *)
(***************************************************************************)
OBJTYP_ATTR == "OBJTYP"
SUBTYP_ATTR == "SUBTYP"

\* the value of a missing subtype or system object
NoValue == "None"

Keys == {OBJTYP_ATTR, SUBTYP_ATTR, STATUS_ATTR}
Names == {"O1", "O2"}
ObjTypes == {"CIRCUIT", "PUMP"}
\* the types the model was constructed to track
AttributeMap == {"CIRCUIT"}
MaxList == 2

ValuesOf(key) ==
    IF key = OBJTYP_ATTR THEN ObjTypes
    ELSE IF key = SUBTYP_ATTR THEN {"LIGHT"}
    ELSE {STATUS_ON, STATUS_OFF}

AllValues == UNION {ValuesOf(key) : key \in Keys}

\* the attribute bags a caller passes: any subset of the keys
Bags ==
    UNION {{b \in [D -> AllValues] : \A key \in D : b[key] \in ValuesOf(key)} :
           D \in SUBSET Keys}

\* the bags of a list entry: no subtype, and a status given with a type
\* only as the initial OFF
EntryBags ==
    {b \in Bags :
        /\ SUBTYP_ATTR \notin DOMAIN b
        /\ DOMAIN b = {OBJTYP_ATTR, STATUS_ATTR}
              => b[OBJTYP_ATTR] = "CIRCUIT" /\ b[STATUS_ATTR] = STATUS_OFF}

ObjEntries == [objnam : Names, params : EntryBags]

\* the lists passed to the model: at most one entry for an object
ObjLists ==
    UNION {{l \in [1..n -> ObjEntries] :
               \A a, b \in 1..n : l[a].objnam = l[b].objnam => a = b} :
           n \in 0..MaxList}

\* the methods class PoolModel defines; it has no __getattr__
PoolModelMethods ==
    {"objectList", "objects", "numObjects", "getByType", "getChildren",
     "addObject", "addObjects", "attributesToTrack", "processUpdates"}

\* PoolObject.__init__: the type and subtype are popped from the parameters
PoolObject(params) ==
    [objtyp     |-> params[OBJTYP_ATTR],
     subtyp     |-> IF SUBTYP_ATTR \in DOMAIN params
                    THEN params[SUBTYP_ATTR] ELSE NoValue,
     properties |-> [key \in DOMAIN params \ {OBJTYP_ATTR, SUBTYP_ATTR} |->
                        params[key]]]

\* PoolObject.update: the keys that are not skipped as unchanged
Changed(obj, updates) ==
    {key \in DOMAIN updates :
        ~(key \in DOMAIN obj.properties /\ obj.properties[key] = updates[key])}

\* PoolObject.update: the returned dictionary
UpdateDiff(obj, updates) ==
    [key \in Changed(obj, updates) |-> updates[key]]

\* PoolObject.update: the object afterwards
Updated(obj, updates) ==
    LET ch == Changed(obj, updates) IN
    [objtyp     |-> IF OBJTYP_ATTR \in ch THEN updates[OBJTYP_ATTR]
                    ELSE obj.objtyp,
     subtyp     |-> IF SUBTYP_ATTR \in ch THEN updates[SUBTYP_ATTR]
                    ELSE obj.subtyp,
     properties |-> [key \in DOMAIN obj.properties
                             \cup (ch \ {OBJTYP_ATTR, SUBTYP_ATTR}) |->
                        IF key \in ch THEN updates[key]
                        ELSE obj.properties[key]]]

StoreAlone(d, key, value) == [x \in {key} |-> value]

\* d[key] = value on a dictionary
Store(d, key, value) ==
    [x \in DOMAIN d \cup {key} |-> IF x = key THEN value ELSE d[x]]

\* PoolModel.addObject: the model afterwards and the exception raised
AddObject(objs, sys, objnam, params) ==
    IF objnam \in DOMAIN objs
    THEN [objects |-> [objs EXCEPT ![objnam] = Updated(@, params)],
          sys |-> sys, raised |-> ""]
    ELSE IF OBJTYP_ATTR \notin DOMAIN params
    THEN [objects |-> objs, sys |-> sys, raised |-> "KeyError"]
    ELSE LET pool_obj == PoolObject(params) IN
         [objects |-> IF pool_obj.objtyp \in AttributeMap
                      THEN Store(objs, objnam, pool_obj) ELSE objs,
          sys     |-> IF pool_obj.objtyp = "SYSTEM" THEN objnam ELSE sys,
          raised  |-> ""]

RECURSIVE AddObjects(_, _, _)
\* PoolModel.addObjects: the loop ends at the first exception
AddObjects(objs, sys, objList) ==
    IF objList = <<>>
    THEN [objects |-> objs, sys |-> sys, raised |-> ""]
    ELSE LET r == AddObject(objs, sys, Head(objList).objnam,
                            Head(objList).params) IN
         IF r.raised # "" THEN r
         ELSE AddObjects(r.objects, r.sys, Tail(objList))

AlwaysRecorded(changed) == TRUE

\* PoolModel.processUpdates: "if changed:"
Recorded(changed) == DOMAIN changed # {}

RECURSIVE ProcessUpdates(_, _, _)
\* PoolModel.processUpdates: the objects afterwards and the returned map
ProcessUpdates(objs, updated, updates) ==
    IF updates = <<>>
    THEN [objects |-> objs, updated |-> updated]
    ELSE LET objnam == Head(updates).objnam
             params == Head(updates).params IN
         IF objnam \in DOMAIN objs
         THEN LET changed == UpdateDiff(objs[objnam], params) IN
              ProcessUpdates([objs EXCEPT ![objnam] = Updated(@, params)],
                             IF Recorded(changed)
                             THEN Store(updated, objnam, changed)
                             ELSE updated,
                             Tail(updates))
         ELSE ProcessUpdates(objs, updated, Tail(updates))

\* the names of a list's entries
NamesOf(objList) == {objList[n].objnam : n \in 1..Len(objList)}

\* the names a list gives a tracked type to
TrackedIn(objList) ==
    {objList[n].objnam : n \in
        {m \in 1..Len(objList) :
            /\ OBJTYP_ATTR \in DOMAIN objList[m].params
            /\ objList[m].params[OBJTYP_ATTR] \in AttributeMap}}

\* no call was made on the model
NoCall ==
    [op      |-> "none",   \* the method called
     name    |-> NoValue,  \* the object named by the call
     attrs   |-> <<>>,     \* the attributes passed to update / addObject
     list    |-> <<>>,     \* the objectList of the NotifyList message
     names   |-> {},       \* the object names in the list passed
     tracked |-> {},       \* those of them the list gives a tracked type
     ret     |-> <<>>,     \* the dictionary returned
     raised  |-> "",       \* the exception that left the call
     again   |-> FALSE,    \* update repeats the call before it
     kept    |-> FALSE,    \* update left the object as it was
     called  |-> FALSE,    \* the updated-callback was invoked
     cb      |-> <<>>]     \* with this argument

\* PoolModel.__init__
ModelConstructed ==
    /\ objects = <<>>
    /\ systemObject = NoValue
    /\ last = NoCall

\* a caller holding model[objnam] calls update on it
DoUpdate(objnam, attrs) ==
    /\ objnam \in DOMAIN objects
    /\ objects' = [objects EXCEPT ![objnam] = Updated(@, attrs)]
    /\ last' = [NoCall EXCEPT !.op = "update", !.name = objnam,
                              !.attrs = attrs,
                              !.ret = UpdateDiff(objects[objnam], attrs),
                              !.again = /\ last.op = "update"
                                        /\ last.name = objnam
                                        /\ last.attrs = attrs,
                              !.kept = Updated(objects[objnam], attrs)
                                         = objects[objnam]]
    /\ UNCHANGED systemObject

DoAddObject(objnam, attrs) ==
    LET r == AddObject(objects, systemObject, objnam, attrs) IN
    /\ objects' = r.objects
    /\ systemObject' = r.sys
    /\ last' = [NoCall EXCEPT !.op = "addObject", !.name = objnam,
                              !.attrs = attrs, !.raised = r.raised]

DoAddObjects(objList) ==
    LET r == AddObjects(objects, systemObject, objList) IN
    /\ objects' = r.objects
    /\ systemObject' = r.sys
    /\ last' = [NoCall EXCEPT !.op = "addObjects", !.names = NamesOf(objList),
                              !.tracked = TrackedIn(objList),
                              !.raised = r.raised]

DoProcessUpdates(updates) ==
    LET r == ProcessUpdates(objects, <<>>, updates) IN
    /\ objects' = r.objects
    /\ last' = [NoCall EXCEPT !.op = "processUpdates",
                              !.names = NamesOf(updates),
                              !.ret = r.updated]
    /\ UNCHANGED systemObject

\* ICModelController._apply_updates: self._model.process_updates(...), then
\* the updated-callback when the returned map is not empty
ApplyUpdates(changes_as_list) ==
    IF "process_updates" \notin PoolModelMethods
    THEN [objects |-> objects, raised |-> "AttributeError",
          called |-> FALSE, cb |-> <<>>]
    ELSE LET r == ProcessUpdates(objects, <<>>, changes_as_list) IN
         [objects |-> r.objects, raised |-> "",
          called |-> DOMAIN r.updated # {}, cb |-> r.updated]

\* a NotifyList message without a response field arrives:
\* ICProtocol.data_received, _handle_notification,
\* ICModelController._on_notification (AttributeError is not caught there)
OnNotification(objectList) ==
    LET r == ApplyUpdates(objectList) IN
    /\ objects' = r.objects
    /\ last' = [NoCall EXCEPT !.op = "NotifyList",
                              !.list = objectList,
                              !.names = NamesOf(objectList),
                              !.raised = r.raised,
                              !.called = r.called, !.cb = r.cb]
    /\ UNCHANGED systemObject

\* ICModelController.start after a (re)connect: the objects fetched are
\* given to self._model.add_objects(...)
ControllerStart(all_objects) ==
    LET r == IF "add_objects" \notin PoolModelMethods
             THEN [objects |-> objects, sys |-> systemObject,
                   raised |-> "AttributeError"]
             ELSE AddObjects(objects, systemObject, all_objects) IN
    /\ objects' = r.objects
    /\ systemObject' = r.sys
    /\ last' = [NoCall EXCEPT !.op = "start", !.names = NamesOf(all_objects),
                              !.tracked = TrackedIn(all_objects),
                              !.raised = r.raised]

(***************************************************************************)
(* protocol.py, connection.py : ICProtocol.data_received                   *)
(***************************************************************************)
MAX_BUFFER_SIZE == 1000000
C_MAX_BUFFER_SIZE == 1024 * 1024

\* bytes received in one run, and in one chunk
MaxStream == 5
MaxChunk == 3

\* the bytes of the stream: "j" a byte of JSON text, "x" a byte of text no
\* JSON document contains, "u1" "u2" the two bytes of one character, "CR"
\* "LF" the terminator's bytes, "B" a run of MAX_BUFFER_SIZE bytes of JSON
\* text
Bytes == {"j", "x", "u1", "u2", "CR", "LF", "B"}

Chunks == UNION {[1..n -> Bytes] : n \in 1..MaxChunk}

\* len() of bytes
ByteLen(data) ==
    Len(data)
      + (MAX_BUFFER_SIZE - 1) * Cardinality({i \in 1..Len(data) : data[i] = "B"})

\* len() of the decoded string: the two bytes of a character count once
StrLen(data) ==
    ByteLen(data) - Cardinality({i \in 1..Len(data) : data[i] = "u2"})

\* bytes.decode("utf-8") succeeds
ValidUtf8(data) ==
    \A i \in 1..Len(data) :
        /\ data[i] = "u1" => i < Len(data) /\ data[i + 1] = "u2"
        /\ data[i] = "u2" => i > 1 /\ data[i - 1] = "u1"

\* orjson.loads succeeds
ValidJson(line) ==
    /\ ValidUtf8(line)
    /\ \A i \in 1..Len(line) : line[i] # "x"
    /\ \E i \in 1..Len(line) : line[i] \in {"j", "B"}

\* the position of the first "\r\n" of the buffer, 0 if it has none
FirstTerminator(buf) ==
    LET at == {i \in 1..(Len(buf) - 1) : buf[i] = "CR" /\ buf[i + 1] = "LF"} IN
    IF at = {} THEN 0 ELSE CHOOSE i \in at : \A k \in at : i <= k

RECURSIVE SplitLines(_)
\* the buffer cut at every "\r\n": the complete lines and what follows them
SplitLines(buf) ==
    LET i == FirstTerminator(buf) IN
    IF i = 0 THEN [lines |-> <<>>, rest |-> buf]
    ELSE LET r == SplitLines(SubSeq(buf, i + 2, Len(buf))) IN
         [lines |-> <<SubSeq(buf, 1, i - 1)>> \o r.lines, rest |-> r.rest]

\* buf.endswith("\r\n")
EndsWithTerminator(buf) ==
    Len(buf) >= 2 /\ buf[Len(buf) - 1] = "CR" /\ buf[Len(buf)] = "LF"

NonEmpty(line) == line # <<>>

\* no data_received call was made
NoReception ==
    [closed  |-> "none",  \* why the call closed the transport
     parsed  |-> 0,       \* lines it handed to the parser
     dropped |-> 0,       \* lines the parser rejected
     grown   |-> FALSE]   \* the buffer was over its cap before the call

\* ICProtocol.__init__ of either module
FramingConstructed ==
    /\ f_impl \in {"protocol", "connection"}
    /\ f_transport = "open"
    /\ f_buffer = <<>>
    /\ f_stream = <<>>
    /\ f_lines = <<>>
    /\ f_msgs = <<>>
    /\ f_ev = NoReception

\* the framing variables while another component is checked
FramingIdle == FramingConstructed /\ f_impl = "protocol"

StaysOpen == "open"

\* transport.close() called on the oversized buffer
ClosedOnOverflow == "closing"

\* the lines a call hands on, and the record of the call
Dispatch(lines, why) ==
    /\ f_lines' = f_lines \o lines
    /\ f_msgs' = f_msgs \o SelectSeq(lines, ValidJson)
    /\ f_ev' = [closed  |-> why,
                parsed  |-> Len(lines),
                dropped |-> Len(lines) - Len(SelectSeq(lines, ValidJson)),
                grown   |-> FALSE]

\* protocol.py ICProtocol.data_received, processMessage
DataReceived(data) ==
    /\ f_impl = "protocol"
    /\ f_transport = "open"
    /\ Len(f_stream) + Len(data) <= MaxStream
    /\ f_stream' = f_stream \o data
    /\ UNCHANGED f_impl
    /\ LET buf == f_buffer \o data IN
       IF ~ValidUtf8(data)
       THEN /\ f_transport' = "closing"
            /\ f_buffer' = f_buffer
            /\ Dispatch(<<>>, "decode")
       ELSE IF StrLen(buf) > MAX_BUFFER_SIZE
       THEN /\ f_transport' = ClosedOnOverflow
            /\ f_buffer' = <<>>
            /\ Dispatch(<<>>, "overflow")
       ELSE IF ~EndsWithTerminator(buf)
       THEN /\ f_transport' = "open"
            /\ f_buffer' = buf
            /\ Dispatch(<<>>, "none")
       ELSE /\ f_transport' = "open"
            /\ f_buffer' = <<>>
            /\ Dispatch(SelectSeq(SplitLines(buf).lines, NonEmpty), "none")

\* connection.py ICProtocol.data_received
ConnDataReceived(data) ==
    /\ f_impl = "connection"
    /\ f_transport = "open"
    /\ Len(f_stream) + Len(data) <= MaxStream
    /\ f_stream' = f_stream \o data
    /\ UNCHANGED f_impl
    /\ LET buf == f_buffer \o data IN
       IF ByteLen(buf) > C_MAX_BUFFER_SIZE
       THEN /\ f_transport' = ClosedOnOverflow
            /\ f_buffer' = buf
            /\ Dispatch(<<>>, "overflow")
       ELSE /\ f_transport' = "open"
            /\ f_buffer' = SplitLines(buf).rest
            /\ Dispatch(SplitLines(buf).lines, "none")

(***************************************************************************)
(* controller.py : the subscription batches of ICModelController.start     *)
(***************************************************************************)
MAX_ATTRIBUTES_PER_QUERY == 50

\* the most objects the model holds
MaxObjects == 3

\* the sizes of the per-type attribute sets (attributesToTrack leaves out an
\* object whose set is empty)
KeyCounts == {1, 25, 30, 50}

\* the lists attributesToTrack can return, as the number of keys per item
AttributeLists == UNION {[1..n -> KeyCounts] : n \in 0..MaxObjects}

RECURSIVE SumKeys(_)
\* the number of attribute keys an objectList carries
SumKeys(q) == IF q = <<>> THEN 0 ELSE Head(q) + SumKeys(Tail(q))

\* start has not run, or has finished without a subscription
BatchIdle ==
    /\ b_attributes = <<>>
    /\ b_query = <<>>
    /\ b_num = 0
    /\ b_pc = "done"
    /\ b_request = <<>>

\* start, up to the loop: attributes = self._model.attributes_to_track()
BatchStarts(attributes) ==
    /\ b_attributes = attributes
    /\ b_query = <<>>
    /\ b_num = 0
    /\ b_pc = "loop"
    /\ b_request = <<>>

\* one iteration of "for items in attributes"
BatchItem ==
    /\ b_pc = "loop"
    /\ b_attributes # <<>>
    /\ b_attributes' = Tail(b_attributes)
    /\ LET query == Append(b_query, Head(b_attributes))
           num_attributes == b_num + Head(b_attributes)
       IN IF num_attributes >= MAX_ATTRIBUTES_PER_QUERY
          THEN /\ b_request' = query
               /\ b_query' = <<>>
               /\ b_num' = 0
          ELSE /\ b_query' = query
               /\ b_num' = num_attributes
               /\ UNCHANGED b_request
    /\ UNCHANGED b_pc

\* after the loop: "if query:" sends what remains
BatchRest ==
    /\ b_pc = "loop"
    /\ b_attributes = <<>>
    /\ b_pc' = "done"
    /\ b_request' = IF b_query # <<>> THEN b_query ELSE b_request
    /\ UNCHANGED <<b_attributes, b_query, b_num>>

(***************************************************************************)
(* connection.py : ICConnection and its _keepalive_loop                    *)
(***************************************************************************)
\* the most keepalive requests, connections and callback calls followed
MaxKeepalives == 3
MaxConnects == 3
MaxCallbacks == 3

\* _keepalive_task: "none" (None), "sleeping" (in asyncio.sleep), "lockwait"
\* (waiting for _request_lock), "awaiting" (request written, waiting for
\* the response), "ended" (the loop was left), "cancelled"
KeepaliveStates ==
    {"none", "sleeping", "lockwait", "awaiting", "ended", "cancelled"}

\* the task is not done()
KeepaliveLive == {"sleeping", "lockwait", "awaiting"}

\* ICConnection.__init__
KeepConstructed ==
    /\ k_protocol = FALSE
    /\ k_connected = FALSE
    /\ k_task = "none"
    /\ k_user = FALSE
    /\ k_sent = 0
    /\ k_connects = 0
    /\ k_callbacks = 0
    /\ k_ev = "none"

\* _keepalive_loop: "break" after TimeoutError or ICConnectionError, and
\* an exception the loop does not catch: the coroutine ends and the
\* connection is what it was
LeftByKeepalive(connected) == connected

\* task.cancel() on a task that is not done
Cancelled(task) == IF task \in KeepaliveLive THEN "cancelled" ELSE task

\* ICConnection.connect: create_connection, connection_made, create_task
KeepConnect ==
    /\ ~(k_protocol /\ k_connected)
    /\ k_connects < MaxConnects
    /\ k_protocol' = TRUE
    /\ k_connected' = TRUE
    /\ k_task' = "sleeping"
    /\ k_connects' = k_connects + 1
    /\ k_ev' = "connect"
    /\ UNCHANGED <<k_user, k_sent, k_callbacks>>

\* a caller's ICConnection.send_request takes the lock and writes
UserSend ==
    /\ k_protocol /\ k_connected
    /\ ~k_user
    /\ k_task # "awaiting"
    /\ k_user' = TRUE
    /\ k_ev' = "user"
    /\ UNCHANGED <<k_protocol, k_connected, k_task, k_sent, k_connects,
                   k_callbacks>>

\* the caller's request ends (response, error response or timeout) and the
\* lock is released; a keepalive waiting for the lock gets it and is written
UserDone ==
    /\ k_user
    /\ k_user' = FALSE
    /\ k_task' = IF k_task = "lockwait" THEN "awaiting" ELSE k_task
    /\ k_sent' = IF k_task = "lockwait" THEN k_sent + 1 ELSE k_sent
    /\ k_ev' = "userdone"
    /\ UNCHANGED <<k_protocol, k_connected, k_connects, k_callbacks>>

\* _keepalive_loop: asyncio.sleep(self._keepalive_interval) returns
KeepaliveDue ==
    /\ k_task = "sleeping"
    /\ k_sent < MaxKeepalives
    /\ k_ev' = "due"
    /\ IF ~(k_protocol /\ k_connected)
       THEN \* if not self.connected: break
            /\ k_task' = "ended"
            /\ UNCHANGED <<k_protocol, k_connected, k_user, k_sent, k_connects,
                           k_callbacks>>
       ELSE IF k_user
       THEN /\ k_task' = "lockwait"
            /\ UNCHANGED <<k_protocol, k_connected, k_user, k_sent, k_connects,
                           k_callbacks>>
       ELSE /\ k_task' = "awaiting"
            /\ k_sent' = k_sent + 1
            /\ UNCHANGED <<k_protocol, k_connected, k_user, k_connects,
                           k_callbacks>>

\* the response to the keepalive request arrives: "200" lets the loop go
\* on; an error response raises ICResponseError out of send_request,
\* which leaves the loop
KeepaliveResponse(code) ==
    /\ k_task = "awaiting"
    /\ k_connected
    /\ k_task' = IF code = "200" THEN "sleeping" ELSE "ended"
    /\ k_connected' = IF code = "200" THEN k_connected
                      ELSE LeftByKeepalive(k_connected)
    /\ k_ev' = IF code = "200" THEN "answered" ELSE "error"
    /\ UNCHANGED <<k_protocol, k_user, k_sent, k_connects, k_callbacks>>

\* asyncio.timeout(10.0) expires: except TimeoutError: break
KeepaliveTimeout ==
    /\ k_task = "awaiting"
    /\ k_connected
    /\ k_task' = "ended"
    /\ k_connected' = LeftByKeepalive(k_connected)
    /\ k_ev' = "timeout"
    /\ UNCHANGED <<k_protocol, k_user, k_sent, k_connects, k_callbacks>>

\* ICProtocol.connection_lost -> ICConnection._on_disconnect: the pending
\* request fails, the keepalive task is cancelled, the callback is called
KeepConnectionLost ==
    /\ k_connected
    /\ k_callbacks < MaxCallbacks
    /\ k_connected' = FALSE
    /\ k_task' = Cancelled(k_task)
    /\ k_user' = FALSE
    /\ k_callbacks' = k_callbacks + 1
    /\ k_ev' = "lost"
    /\ UNCHANGED <<k_protocol, k_sent, k_connects>>

\* ICConnection.disconnect: cancel the keepalive task, ICProtocol.close(),
\* and the connection_lost call that transport.close() brings
KeepDisconnect ==
    /\ k_protocol
    /\ k_callbacks < MaxCallbacks
    /\ k_protocol' = FALSE
    /\ k_connected' = FALSE
    /\ k_task' = IF k_task \in KeepaliveLive THEN "none" ELSE k_task
    /\ k_user' = FALSE
    /\ k_callbacks' = IF k_connected THEN k_callbacks + 1 ELSE k_callbacks
    /\ k_ev' = "disconnect"
    /\ UNCHANGED <<k_sent, k_connects>>

(***************************************************************************)
(* protocol.py : sendRequest, responseReceived and the deadlock reset      *)
(* under any number of requests and responses                              *)
(***************************************************************************)
\* the requests followed beyond those that fill the queue
MaxExtra == 3
MaxRequests == MAX_QUEUE_SIZE + MaxExtra

NoFlowCall ==
    [op    |-> "none",   \* "sendRequest", "responseReceived" or "reset"
     was   |-> 0,        \* _out_pending before the call
     had   |-> 0,        \* the queue length before the call
     wrote |-> <<>>]     \* the IDs the call wrote to the transport

\* ICProtocol.__init__
FlowConstructed ==
    /\ fl_pending = 0
    /\ fl_queue = <<>>
    /\ fl_next = 1
    /\ fl_ev = NoFlowCall

\* sendRequest, called by sendCmd with the request of the next message ID
FlowSendRequest ==
    /\ fl_next <= MaxRequests
    /\ LET r == SendRequestResult(fl_pending, fl_queue, <<>>, fl_next) IN
        /\ fl_pending' = r.pending
        /\ fl_queue' = r.queue
        /\ fl_ev' = [op |-> "sendRequest", was |-> fl_pending,
                     had |-> Len(fl_queue), wrote |-> r.wire]
    /\ fl_next' = NextMsgID(fl_next)

\* responseReceived, for a response to the request in flight or a spurious one
FlowResponseReceived ==
    /\ LET r == ResponseReceivedResult(fl_pending, fl_queue, <<>>) IN
        /\ fl_pending' = r.pending
        /\ fl_queue' = r.queue
        /\ fl_ev' = [op |-> "responseReceived", was |-> fl_pending,
                     had |-> Len(fl_queue), wrote |-> r.wire]
    /\ UNCHANGED fl_next

\* _heartbeat_loop: the deadlock reset (requests pending and no flow-control
\* activity for FLOW_CONTROL_TIMEOUT)
FlowReset ==
    /\ fl_pending > 0
    /\ fl_pending' = 0
    /\ fl_queue' = <<>>
    /\ fl_ev' = [op |-> "reset", was |-> fl_pending, had |-> Len(fl_queue),
                 wrote |-> <<>>]
    /\ UNCHANGED fl_next

(***************************************************************************)
(* Specifications                                                          *)
(***************************************************************************)
\* the handler's variables while another component is checked
HandlerIdle == HandlerConstructed /\ HandlerDefault

\* the protocol's variables while another component is checked
ProtoIdle == ProtoConstructed /\ keepalive_interval = KEEPALIVE_INTERVAL

Init ==
    /\ ProtoIdle /\ ConnConstructed /\ HandlerIdle /\ ModelConstructed
    /\ FramingIdle /\ BatchIdle /\ KeepConstructed
    /\ FlowConstructed

InitProtocol ==
    /\ ProtoConstructed /\ ConnConstructed /\ HandlerIdle /\ ModelConstructed
    /\ FramingIdle /\ BatchIdle /\ KeepConstructed
    /\ FlowConstructed

Next ==
    \/ ConnectionMade /\ UNCHANGED <<connVars, handlerVars, modelVars, framingVars, batchVars, keepVars, flowVars>>
    \/ SendCmd /\ UNCHANGED <<connVars, handlerVars, modelVars, framingVars, batchVars, keepVars, flowVars>>
    \/ ResponseArrives /\ UNCHANGED <<connVars, handlerVars, modelVars, framingVars, batchVars, keepVars, flowVars>>
    \/ NotificationArrives /\ UNCHANGED <<connVars, handlerVars, modelVars, framingVars, batchVars, keepVars, flowVars>>
    \/ Pass /\ UNCHANGED <<connVars, handlerVars, modelVars, framingVars, batchVars, keepVars, flowVars>>
    \/ Heartbeat /\ UNCHANGED <<connVars, handlerVars, modelVars, framingVars, batchVars, keepVars, flowVars>>
    \/ ConnectionLost /\ UNCHANGED <<connVars, handlerVars, modelVars, framingVars, batchVars, keepVars, flowVars>>
    \/ NewProtocol /\ UNCHANGED <<connVars, handlerVars, modelVars, framingVars, batchVars, keepVars, flowVars>>

\* the legacy protocol (protocol.py)
Spec == InitProtocol /\ [][Next]_vars

NextCtrl ==
    \/ Connect /\ UNCHANGED <<protoVars, handlerVars, modelVars, framingVars, batchVars, keepVars, flowVars>>
    \/ \E i \in Callers, o \in Objects, st \in BOOLEAN :
          SetCircuitState(i, o, st) /\ UNCHANGED <<protoVars, handlerVars, modelVars, framingVars, batchVars, keepVars, flowVars>>
    \/ \E i \in Callers : LockGranted(i) /\ UNCHANGED <<protoVars, handlerVars, modelVars, framingVars, batchVars, keepVars, flowVars>>
    \/ ConnResponseArrives /\ UNCHANGED <<protoVars, handlerVars, modelVars, framingVars, batchVars, keepVars, flowVars>>
    \/ \E i \in Callers : Resume(i) /\ UNCHANGED <<protoVars, handlerVars, modelVars, framingVars, batchVars, keepVars, flowVars>>
    \/ \E i \in Callers : RequestTimeout(i) /\ UNCHANGED <<protoVars, handlerVars, modelVars, framingVars, batchVars, keepVars, flowVars>>
    \/ ConnConnectionLost /\ UNCHANGED <<protoVars, handlerVars, modelVars, framingVars, batchVars, keepVars, flowVars>>
    \/ Disconnect /\ UNCHANGED <<protoVars, handlerVars, modelVars, framingVars, batchVars, keepVars, flowVars>>

\* the controller's write path over ICConnection (controller.py, connection.py)
SpecCtrl == Init /\ [][NextCtrl]_vars

InitHandler ==
    /\ ProtoIdle /\ ConnConstructed /\ HandlerConstructed /\ ModelConstructed
    /\ FramingIdle /\ BatchIdle /\ KeepConstructed
    /\ FlowConstructed

NextHandler ==
    \/ Start /\ UNCHANGED <<protoVars, connVars, modelVars, framingVars, batchVars, keepVars, flowVars>>
    \/ \E k \in HTasks : TaskRuns(k) /\ UNCHANGED <<protoVars, connVars, modelVars, framingVars, batchVars, keepVars, flowVars>>
    \/ \E k \in HTasks : TcpConnected(k) /\ UNCHANGED <<protoVars, connVars, modelVars, framingVars, batchVars, keepVars, flowVars>>
    \/ \E k \in HTasks : ConnectFails(k) /\ UNCHANGED <<protoVars, connVars, modelVars, framingVars, batchVars, keepVars, flowVars>>
    \/ \E k \in HTasks, err \in {"ICCommandError", "TimeoutError", "KeyError"} :
          RequestFails(k, err) /\ UNCHANGED <<protoVars, connVars, modelVars, framingVars, batchVars, keepVars, flowVars>>
    \/ \E k \in HTasks : LostRequestFails(k) /\ UNCHANGED <<protoVars, connVars, modelVars, framingVars, batchVars, keepVars, flowVars>>
    \/ \E k \in HTasks : AttemptSucceeds(k) /\ UNCHANGED <<protoVars, connVars, modelVars, framingVars, batchVars, keepVars, flowVars>>
    \/ \E k \in HTasks : Wakes(k) /\ UNCHANGED <<protoVars, connVars, modelVars, framingVars, batchVars, keepVars, flowVars>>
    \/ EstablishedLost /\ UNCHANGED <<protoVars, connVars, modelVars, framingVars, batchVars, keepVars, flowVars>>
    \/ LeakedLost /\ UNCHANGED <<protoVars, connVars, modelVars, framingVars, batchVars, keepVars, flowVars>>
    \/ \E k \in HTasks : AttemptLost(k) /\ UNCHANGED <<protoVars, connVars, modelVars, framingVars, batchVars, keepVars, flowVars>>
    \/ DebounceExpires /\ UNCHANGED <<protoVars, connVars, modelVars, framingVars, batchVars, keepVars, flowVars>>
    \/ Stop /\ UNCHANGED <<protoVars, connVars, modelVars, framingVars, batchVars, keepVars, flowVars>>
    \/ Advance /\ UNCHANGED <<protoVars, connVars, modelVars, framingVars, batchVars, keepVars, flowVars>>

\* the reconnecting handler (controller.py ICConnectionHandler)
SpecHandler == InitHandler /\ [][NextHandler]_vars

NextModel ==
    \/ \E objnam \in Names, attrs \in Bags :
          DoUpdate(objnam, attrs) /\ UNCHANGED <<protoVars, connVars, handlerVars, framingVars, batchVars, keepVars, flowVars>>
    \/ \E objnam \in Names, attrs \in Bags :
          DoAddObject(objnam, attrs) /\ UNCHANGED <<protoVars, connVars, handlerVars, framingVars, batchVars, keepVars, flowVars>>
    \/ \E objList \in ObjLists :
          DoAddObjects(objList) /\ UNCHANGED <<protoVars, connVars, handlerVars, framingVars, batchVars, keepVars, flowVars>>
    \/ \E updates \in ObjLists :
          DoProcessUpdates(updates) /\ UNCHANGED <<protoVars, connVars, handlerVars, framingVars, batchVars, keepVars, flowVars>>
    \/ \E objectList \in ObjLists :
          OnNotification(objectList) /\ UNCHANGED <<protoVars, connVars, handlerVars, framingVars, batchVars, keepVars, flowVars>>
    \/ \E all_objects \in ObjLists :
          ControllerStart(all_objects) /\ UNCHANGED <<protoVars, connVars, handlerVars, framingVars, batchVars, keepVars, flowVars>>

\* the pool model and the controller's calls on it (model.py, controller.py)
SpecModel == Init /\ [][NextModel]_vars

InitFraming ==
    /\ ProtoIdle /\ ConnConstructed /\ HandlerIdle /\ ModelConstructed
    /\ FramingConstructed /\ BatchIdle /\ KeepConstructed
    /\ FlowConstructed

NextFraming ==
    \/ \E data \in Chunks :
          DataReceived(data)
            /\ UNCHANGED <<protoVars, connVars, handlerVars, modelVars, batchVars, keepVars, flowVars>>
    \/ \E data \in Chunks :
          ConnDataReceived(data)
            /\ UNCHANGED <<protoVars, connVars, handlerVars, modelVars, batchVars, keepVars, flowVars>>

\* the reception of the byte stream (protocol.py, connection.py)
SpecFraming == InitFraming /\ [][NextFraming]_vars

InitBatch ==
    /\ ProtoIdle /\ ConnConstructed /\ HandlerIdle /\ ModelConstructed
    /\ FramingIdle /\ KeepConstructed
    /\ FlowConstructed
    /\ \E attributes \in AttributeLists : BatchStarts(attributes)

NextBatch ==
    \/ BatchItem
         /\ UNCHANGED <<protoVars, connVars, handlerVars, modelVars, framingVars,
                        keepVars, flowVars>>
    \/ BatchRest
         /\ UNCHANGED <<protoVars, connVars, handlerVars, modelVars, framingVars,
                        keepVars, flowVars>>

\* the subscription batches of ICModelController.start (controller.py)
SpecBatch == InitBatch /\ [][NextBatch]_vars

OtherThanKeep ==
    <<protoVars, connVars, handlerVars, modelVars, framingVars, batchVars,
      flowVars>>

NextKeep ==
    \/ KeepConnect /\ UNCHANGED OtherThanKeep
    \/ UserSend /\ UNCHANGED OtherThanKeep
    \/ UserDone /\ UNCHANGED OtherThanKeep
    \/ KeepaliveDue /\ UNCHANGED OtherThanKeep
    \/ \E code \in {"200", "400"} :
          KeepaliveResponse(code) /\ UNCHANGED OtherThanKeep
    \/ KeepaliveTimeout /\ UNCHANGED OtherThanKeep
    \/ KeepConnectionLost /\ UNCHANGED OtherThanKeep
    \/ KeepDisconnect /\ UNCHANGED OtherThanKeep

\* ICConnection with its keepalive task (connection.py)
SpecKeep == Init /\ [][NextKeep]_vars

InitFlow ==
    /\ ProtoConnected /\ ConnConstructed /\ HandlerIdle /\ ModelConstructed
    /\ FramingIdle /\ BatchIdle /\ KeepConstructed
    /\ FlowConstructed

OtherThanFlow ==
    <<protoVars, connVars, handlerVars, modelVars, framingVars, batchVars,
      keepVars>>

NextFlow ==
    \/ FlowSendRequest /\ UNCHANGED OtherThanFlow
    \/ FlowResponseReceived /\ UNCHANGED OtherThanFlow
    \/ FlowReset /\ UNCHANGED OtherThanFlow

\* the flow control of a connected ICProtocol (protocol.py)
SpecFlow == InitFlow /\ [][NextFlow]_vars

(***************************************************************************)
(* C1: single in-flight invariant: the number of requests written to the   *)
(* transport for which no response has arrived yet is at most 1.           *)
(***************************************************************************)
C1_SingleInFlight == Len(wire) <= 1

(***************************************************************************)
(* The write made when the in-flight slot frees, and the callers that      *)
(* were waiting for the slot at that moment (drainLog).                    *)
(***************************************************************************)
\* the entries of an objectList for one object
EntriesFor(ol, objnam) == {n \in 1..Len(ol) : ol[n].objnam = objnam}

\* among the callers ws, the one that made its call last
LastIssued(ws) == CHOOSE w \in ws : \A x \in ws : x <= w

\* C2: coalescing latest-wins: when several set-state writes for the same
\* (object, attribute) were requested while another write was in flight, the
\* batch sent once the slot frees has exactly one entry for that object and
\* attribute, carrying the value of the last request issued.
C2_LatestWins ==
    \A k \in 1..Len(drainLog) :
        LET d == drainLog[k] IN
        \A w \in d.waited :
            LET same == {x \in d.waited : tasks[x].objnam = tasks[w].objnam}
                es == EntriesFor(d.objectList, tasks[w].objnam)
            IN Cardinality(same) >= 2 =>
                /\ Cardinality(es) = 1
                /\ \A n \in es :
                      d.objectList[n].params[STATUS_ATTR] = tasks[LastIssued(same)].value

\* C3: batched concurrent writes: the set-state calls for different objects
\* issued while one request is in flight reach the wire as one SETPARAMLIST
\* whose objectList holds every one of those objects exactly once.
C3_OneBatchForAllWaiters ==
    \A k \in 1..Len(drainLog) :
        LET d == drainLog[k] IN
        /\ \A w \in d.waited :
              Cardinality(EntriesFor(d.objectList, tasks[w].objnam)) = 1
        /\ \A n \in 1..Len(d.objectList) :
              \E w \in d.waited : tasks[w].objnam = d.objectList[n].objnam

\* C4: the outcome of a coalesced write is delivered to every caller whose
\* data was folded into the batch: no two callers of one batch end with
\* different outcomes.
C4_SameOutcomeForBatch ==
    \A k \in 1..Len(drainLog) :
        \A w1, w2 \in drainLog[k].waited :
            (tasks[w1].pc = "done" /\ tasks[w2].pc = "done")
                => tasks[w1].outcome = tasks[w2].outcome

(***************************************************************************)
(* Properties of the reconnecting handler                                  *)
(***************************************************************************)
Successes == {"started", "reconnected", "silent"}

\* C5: when the connection is lost and a reconnect succeeds before the
\* debounce interval is over, on_disconnected is never called for that
\* outage: every call of on_disconnected happens in an outage, that is, with
\* no successful connection since the last disconnect notification; and a
\* reconnect that comes before the timer's time leaves no timer behind.
C5_DebounceSuppresses ==
    /\ out.cb = "disconnected" => out.down
    /\ out.cancelled => ~debounce.live

\* a reconnect succeeded while the debounce timer of its outage was pending,
\* nothing having been reported for the outage
C5_Witness ==
    /\ out.cb = "reconnected"
    /\ out.cancelled
    /\ out.down
    /\ ~out.emitted

\* C6: if the connection is still down when the debounce interval is over,
\* on_disconnected is called, and it is called exactly once for that outage
\* even if further disconnect notifications arrive during it.
C6_OncePerOutage ==
    /\ out.cb = "expired" => ~out.down
    /\ g.emitted <= 1

\* the waits of the retry sequence: w is the wait, p the wait before it
BackoffStep(p, w) ==
    /\ p = NoTime => w = time_between_reconnects
    /\ p # NoTime => w = Min((3 * p) \div 2, MAX_RECONNECT_DELAY)
    /\ p > 0 /\ p < MAX_RECONNECT_DELAY => w > p
    /\ w <= MAX_RECONNECT_DELAY

\* C7: the wait before each retry starts at the configured base and after
\* every failure becomes min(int(1.5 * previous), 600); it grows for every
\* configured base and never exceeds 600 seconds.
C7_Backoff ==
    \A k \in HTasks :
        /\ htasks[k].pc = "initsleep" => BackoffStep(htasks[k].prev, htasks[k].idelay)
        /\ htasks[k].pc = "failsleep" => BackoffStep(htasks[k].prev, htasks[k].delay)

\* C8: after 5 failed attempts in a row, the first (synchronous) one
\* included, no attempt is made until the cooldown of 300 seconds is over;
\* and a successful connection resets the failure count to 0.
C8_CircuitBreaker ==
    /\ out.began /\ out.fails >= CIRCUIT_BREAKER_FAILURES
          => out.gap >= CIRCUIT_BREAKER_RESET_TIME
    /\ out.cb \in Successes => failure_count = 0

\* C9: start() makes exactly one connection attempt before it returns; if
\* that attempt fails, start() raises the failure and the retry loop goes on
\* in the background.  (A start() that stop() interrupts is left aside.)
C9_StartOneAttempt ==
    out.ret # "none" /\ out.firstOutcome # "cancelled" =>
        /\ out.retAttempts = 1
        /\ out.firstOutcome \in {"caught", "uncaught"} =>
              /\ out.ret = "raised"
              /\ ~stopped => \E k \in HTasks : htasks[k].pc # "free"

\* C10 as stated: on_reconnected is fired only by a success that is not the
\* first one and that ends an outage for which on_disconnected was called.
C10_ReconnectedAfterDisconnected ==
    out.cb = "reconnected" => ~out.first /\ out.emitted

\* C10, amended: on_reconnected is fired only by a success that is not the
\* first one and that follows a disconnect notification received since the
\* success before it, whether or not on_disconnected was called for it; the
\* first success, and only it, fires on_started instead.
C10_ReconnectedAfterLoss ==
    /\ out.cb = "reconnected" => ~out.first /\ out.down
    /\ out.cb \in Successes => (out.first <=> out.cb = "started")

\* on_reconnected fired for an outage that on_disconnected never reported
C10_Witness ==
    /\ out.cb = "reconnected"
    /\ out.down
    /\ ~out.first
    /\ ~out.emitted
    /\ ~out.cancelled

\* C11: stop() is terminal: once stop() has returned, no reconnect attempt
\* is started and none of on_started, on_reconnected, on_disconnected and
\* on_retrying is called, whatever coroutines and timers were pending.
C11_StopTerminal ==
    stopped =>
        /\ ~out.began
        /\ out.cb \notin {"started", "reconnected", "disconnected"}
        /\ ~out.retrying

(***************************************************************************)
(* Properties of requests at the end of a connection                       *)
(***************************************************************************)
\* C12: after stop(), every request that was pending (in flight, or waiting
\* for the in-flight slot) fails with a connection error: none completes
\* successfully afterwards or fails with another kind of error, and the one
\* in flight does not stay pending.
C12_PendingFailOnStop ==
    pend.why = "stop" =>
        \A i \in pend.who :
            /\ tasks[i].pc = "done" => tasks[i].outcome = "ICConnectionError"
            /\ tasks[i].pc = "awaiting" => c_future.state = "exception"

C14_SendOutcomes ==
    [][\A i \in Callers :
          tasks[i].pc = "awaiting" /\ tasks'[i].pc = "done"
              /\ c_future.state # "exception" =>
          \/ /\ c_future.state = "result" /\ c_future.msg.response = "200"
             /\ tasks'[i].outcome = "ok"
          \/ /\ c_future.state = "result" /\ c_future.msg.response # "200"
             /\ tasks'[i].outcome = "ICCommandError"
             /\ tasks'[i].code = c_future.msg.response
          \/ /\ c_future.state = "pending"
             /\ tasks'[i].outcome = "TimeoutError"]_vars

\* three sends on the open connection ended in the three ways
C14_Witness ==
    /\ c_connected
    /\ pend.why = "none"
    /\ \E i, j, k \in Callers :
          /\ tasks[i].pc = "done" /\ tasks[i].outcome = "ok"
          /\ tasks[j].pc = "done" /\ tasks[j].outcome = "ICCommandError"
          /\ tasks[j].code = "400"
          /\ tasks[k].pc = "done" /\ tasks[k].outcome = "TimeoutError"
(***************************************************************************)
(* C15: idempotent update: for every object, every attribute key K (the    *)
(* type and subtype keys included) and every value V, a second call of     *)
(* update({K: V}) with the same V returns an empty diff and leaves the     *)
(* object unchanged.                                                       *)
(***************************************************************************)
C15_IdempotentUpdate ==
    (last.op = "update" /\ last.again /\ Cardinality(DOMAIN last.attrs) = 1)
        => DOMAIN last.ret = {} /\ last.kept

\* the object holds value for key: in its type, its subtype or its properties
Holds(obj, key, value) ==
    IF key = OBJTYP_ATTR THEN obj.objtyp = value
    ELSE IF key = SUBTYP_ATTR THEN obj.subtyp = value
    ELSE key \in DOMAIN obj.properties /\ obj.properties[key] = value

(***************************************************************************)
(* C16: update(attrs) returns exactly the changed subset: a key/value pair *)
(* of attrs is in the returned diff if and only if the key was absent or   *)
(* held a different value before the call; after the call the object holds *)
(* the given value for every key of attrs, and all keys not in attrs are   *)
(* unchanged.                                                              *)
(***************************************************************************)
C16_ChangedSubset ==
    [][last'.op = "update" =>
        LET before == objects[last'.name]
            after  == objects'[last'.name]
            attrs  == last'.attrs
            diff   == last'.ret IN
        /\ DOMAIN diff \subseteq DOMAIN attrs
        /\ \A key \in DOMAIN attrs :
              /\ (key \in DOMAIN diff /\ diff[key] = attrs[key])
                    <=> ~Holds(before, key, attrs[key])
              /\ Holds(after, key, attrs[key])
        /\ \A key \in Keys \ DOMAIN attrs : \A value \in AllValues \cup {NoValue} :
              Holds(after, key, value) <=> Holds(before, key, value)]_vars

(***************************************************************************)
(* C17: processUpdates never creates objects: an entry whose object name   *)
(* is not in the model leaves the model unchanged and does not appear in   *)
(* the result, and the returned map contains an object name only if that   *)
(* object's update produced a non-empty diff.                              *)
(***************************************************************************)
C17_NoCreation ==
    [][last'.op = "processUpdates" =>
        /\ DOMAIN objects' = DOMAIN objects
        /\ last'.names \cap DOMAIN objects = {} => objects' = objects
        /\ \A objnam \in DOMAIN last'.ret :
              /\ objnam \in DOMAIN objects
              /\ objnam \in last'.names
              /\ DOMAIN last'.ret[objnam] # {}
              /\ \A key \in DOMAIN last'.ret[objnam] :
                    Holds(objects'[objnam], key, last'.ret[objnam][key])]_vars

\* processUpdates was given an entry for an object of the model that changed
\* it and an entry for a name the model does not have
C17_Witness ==
    /\ last.op = "processUpdates"
    /\ last.names = Names
    /\ DOMAIN objects = {"O1"}
    /\ DOMAIN last.ret = {"O1"}

(***************************************************************************)
(* C18: addObject(name, attrs) for a new name is a silent no-op when attrs *)
(* has no type discriminator (an empty attribute bag included) or when the *)
(* type is not in the tracked-types set: it raises no error, adds nothing  *)
(* and leaves the model unchanged, so a bulk addObjects goes on to add the *)
(* remaining valid entries of its list.                                    *)
(***************************************************************************)
C18_SilentNoOp ==
    [][/\ ( /\ last'.op = "addObject"
            /\ last'.name \notin DOMAIN objects
            /\ \/ OBJTYP_ATTR \notin DOMAIN last'.attrs
               \/ last'.attrs[OBJTYP_ATTR] \notin AttributeMap )
          => last'.raised = "" /\ objects' = objects
       /\ last'.op = "addObjects"
          => last'.raised = "" /\ last'.tracked \subseteq DOMAIN objects'
      ]_vars

(***************************************************************************)
(* C19: the set of object names in the model only grows: no addObject,     *)
(* addObjects, update, processUpdates, notification or restart of the      *)
(* controller removes an object, and adding a name that already exists     *)
(* updates the existing object in place without changing the object count. *)
(***************************************************************************)
C19_OnlyGrows ==
    [][/\ DOMAIN objects \subseteq DOMAIN objects'
       /\ (last'.op = "addObject" /\ last'.name \in DOMAIN objects)
          => /\ DOMAIN objects' = DOMAIN objects
             /\ last'.raised = ""
             /\ \A key \in DOMAIN last'.attrs :
                   Holds(objects'[last'.name], key, last'.attrs[key])
             /\ \A objnam \in DOMAIN objects \ {last'.name} :
                   objects'[objnam] = objects[objnam]
      ]_vars

\* addObject was called without a type for a name the model has (a new name
\* without a type raises): the object took the status, both objects remain
C19_Witness ==
    /\ last.op = "addObject"
    /\ last.raised = ""
    /\ last.attrs = [key \in {STATUS_ATTR} |-> STATUS_ON]
    /\ DOMAIN objects = Names
    /\ objects[last.name].properties = last.attrs

(***************************************************************************)
(* C20: end-to-end notification: every well-formed NotifyList message      *)
(* received on the wire (command NotifyList plus an objectList, with no    *)
(* response field and no messageID) is applied to the model and reported   *)
(* through the update callback with exactly the changed attributes per     *)
(* object; for O1.STATUS = OFF and a notification STATUS = ON the callback *)
(* gets {O1: {STATUS: ON}} and O1.STATUS is ON afterwards.                 *)
(***************************************************************************)
C20_NotificationApplied ==
    [][last'.op = "NotifyList" =>
        /\ last'.raised = ""
        \* applied: the objects of the model hold the values sent
        /\ \A n \in 1..Len(last'.list) :
              LET objnam == last'.list[n].objnam
                  params == last'.list[n].params IN
              objnam \in DOMAIN objects =>
                  \A key \in DOMAIN params :
                      Holds(objects'[objnam], key, params[key])
        \* reported: the callback gets the attributes that changed, no others
        /\ \A objnam \in DOMAIN objects : \A key \in Keys :
              (/\ last'.called
               /\ objnam \in DOMAIN last'.cb
               /\ key \in DOMAIN last'.cb[objnam]
               /\ Holds(objects'[objnam], key, last'.cb[objnam][key]))
              <=> \E value \in AllValues :
                      /\ Holds(objects'[objnam], key, value)
                      /\ ~Holds(objects[objnam], key, value)
      ]_vars

(***************************************************************************)
(* C21: the heartbeat closes the connection for missed keepalives when,    *)
(* and only when, 3 consecutive keepalive requests have each failed to     *)
(* receive a matching "200" response: a single keepalive that stays        *)
(* unanswered, with no further keepalive sent, does not by itself close    *)
(* the connection.                                                         *)
(***************************************************************************)
C21_ThreeKeepalives ==
    pev.closed = "missed" => kaUnanswered >= MAX_MISSED_KEEPALIVES

(***************************************************************************)
(* C22: deadlock recovery is self-healing and non-fatal: at a heartbeat    *)
(* tick where requests are pending and no flow-control activity has        *)
(* occurred for more than the deadlock window, the in-flight counter       *)
(* becomes 0 and the wait queue becomes empty, the transport is not        *)
(* closed, and the next send after the reset is written to the transport   *)
(* immediately.                                                            *)
(***************************************************************************)
C22_DeadlockRecovery ==
    [][/\ (/\ pev'.op = "heartbeat"
           /\ out_pending > 0
           /\ sinceFC > FLOW_CONTROL_TIMEOUT)
          => /\ out_pending' = 0
             /\ out_queue' = <<>>
             /\ transport' = "open"
       /\ (afterReset /\ transport = "open" /\ pev'.id # None)
          => pev'.wrote = <<pev'.id>>
      ]_vars

(***************************************************************************)
(* C23: idle timeout: while connected, if no byte is received for longer   *)
(* than the idle window (300 s), the connection is closed at the next      *)
(* heartbeat tick; any received data restarts the idle window.             *)
(***************************************************************************)
C23_IdleTimeout ==
    [][/\ (pev'.op = "heartbeat" /\ sinceData > CONNECTION_IDLE_TIMEOUT)
          => transport' = "closing"
       /\ (pev'.op = "heartbeat" /\ pev'.closed = "idle")
          => sinceData > CONNECTION_IDLE_TIMEOUT
       /\ pev'.op \in {"response", "notification"} => sinceData' = 0
      ]_vars

\* the heartbeat closed a connection that had been silent for the idle window
C23_Witness ==
    /\ pev.op = "heartbeat"
    /\ pev.closed = "idle"
    /\ transport = "closing"
    /\ sinceData > CONNECTION_IDLE_TIMEOUT

\* the buffer is over the cap of the implementation that receives
OverCap(buf) ==
    IF f_impl = "protocol" THEN StrLen(buf) > MAX_BUFFER_SIZE
    ELSE ByteLen(buf) > C_MAX_BUFFER_SIZE

\* the bytes the step's data_received call was given
ReceivedNow == SubSeq(f_stream', Len(f_stream) + 1, Len(f_stream'))

(***************************************************************************)
(* C24: whenever the receive buffer grows beyond the hard cap (1 MB)       *)
(* without containing a terminator, the connection is closed at once, no   *)
(* message is dispatched from that data, and the buffer does not keep      *)
(* growing.                                                                *)
(***************************************************************************)
C24_BufferCap ==
    [][/\ (/\ f_stream' # f_stream
           /\ OverCap(f_buffer \o ReceivedNow)
           /\ FirstTerminator(f_buffer \o ReceivedNow) = 0)
          => /\ f_transport' = "closing"
             /\ f_lines' = f_lines
             /\ f_msgs' = f_msgs
       /\ OverCap(f_buffer) => f_buffer' = f_buffer /\ f_stream' = f_stream
      ]_vars

\* connection.py closed the transport on a buffer over its cap that holds
\* no terminator
C24_Witness ==
    /\ f_impl = "connection"
    /\ f_ev.closed = "overflow"
    /\ f_transport = "closing"
    /\ OverCap(f_buffer)
    /\ FirstTerminator(f_stream) = 0
    /\ f_lines = <<>>

\* the complete, non-empty lines of the bytes received so far
CompleteLines == SelectSeq(SplitLines(f_stream).lines, NonEmpty)

(***************************************************************************)
(* C25: framing is independent of chunking: however the incoming byte      *)
(* stream is split into chunks, after every data_received call (that left  *)
(* the connection open) the messages dispatched so far are exactly the     *)
(* complete CRLF-terminated lines received so far, each dispatched once    *)
(* and in stream order, while a trailing partial line is kept until its    *)
(* terminator arrives.                                                     *)
(***************************************************************************)
C25_ChunkingIndependent ==
    f_transport = "open"
        => /\ SelectSeq(f_lines, NonEmpty) = CompleteLines
           /\ SplitLines(f_buffer).rest = SplitLines(f_stream).rest

InvalidJson(line) == ~ValidJson(line)

(***************************************************************************)
(* C26: a well-framed line that is not valid JSON is dropped without       *)
(* closing the connection and without disturbing anything else: the other  *)
(* lines of the same chunk and all later messages are still dispatched.    *)
(* Stated for streams of lines below the buffer cap, once the last line    *)
(* received is complete.                                                   *)
(***************************************************************************)
C26_InvalidJsonDropped ==
    (/\ SelectSeq(CompleteLines, InvalidJson) # <<>>
     /\ SplitLines(f_stream).rest = <<>>
     /\ \A i \in 1..Len(f_stream) : f_stream[i] # "B")
        => /\ f_transport = "open"
           /\ f_msgs = SelectSeq(CompleteLines, ValidJson)

C28_BatchBounded == SumKeys(b_request) <= MAX_ATTRIBUTES_PER_QUERY

(***************************************************************************)
(* C29: the response that send_request hands to a caller is the peer's     *)
(* response to that caller's own request: a response that arrives late,    *)
(* for an earlier request that timed out or failed, is never the result    *)
(* of a later request.                                                     *)
(***************************************************************************)
C29_OwnResponse ==
    \A i \in Callers :
        (tasks[i].pc = "done" /\ tasks[i].got # None)
            => tasks[i].got = tasks[i].req

(***************************************************************************)
(* C30: queued requests are transmitted in FIFO order, one per response:   *)
(* each arriving response causes exactly the oldest queued request (if     *)
(* any) to be written and the in-flight counter to drop by one, so the     *)
(* requests reach the wire in the order in which sendRequest was called    *)
(* (the order of their IDs).                                               *)
(***************************************************************************)
C30_FifoOnePerResponse ==
    [][/\ pev'.op = "response" =>
            /\ pev'.wrote = (IF out_queue # <<>> THEN <<Head(out_queue)>>
                                                ELSE <<>>)
            /\ out_queue' = (IF out_queue # <<>> THEN Tail(out_queue)
                                                ELSE <<>>)
            /\ out_pending' = out_pending - 1
       /\ \A a, b \in 1..Len(wlog') : a < b => wlog'[a] < wlog'[b]]_vars

C34_KeepaliveCleared ==
    [][pev'.op = "response" =>
            IF kaId # None /\ pev'.msg_id = kaId /\ pev'.code = "200"
            THEN <<kaPending', kaId', missed'>> = <<FALSE, None, 0>>
            ELSE <<kaPending', kaId', missed'>> = <<kaPending, kaId, missed>>]_vars

C34_Witness ==
    /\ pev.op = "response"
    /\ pev.code = "400"
    /\ pev.msg_id # None
    /\ pev.msg_id = kaId
    /\ kaPending
    /\ missed > 0

(***************************************************************************)
(* C32: a per-request failure is not fatal to the connection: when a       *)
(* request fails with a response error or with a timeout, the connection   *)
(* stays as it was (connected, protocol in place, no disconnect reported), *)
(* the failed caller gives up the in-flight slot to the oldest waiter, and *)
(* a waiter that gets the slot on a live connection writes its request.    *)
(***************************************************************************)
RequestFailures == {"TimeoutError", "ICCommandError"}

C32_FailureNotFatal ==
    [][\A i \in Callers :
        /\ (/\ tasks[i].pc = "awaiting"
            /\ tasks'[i].pc = "done"
            /\ tasks'[i].outcome \in RequestFailures)
              => /\ c_connected' = c_connected
                 /\ c_protocol' = c_protocol
                 /\ pend' = pend
                 /\ c_lock' = (IF c_waiters = <<>> THEN None
                                                  ELSE Head(c_waiters))
        /\ (/\ tasks[i].pc = "lockwait"
            /\ tasks'[i].pc # "lockwait"
            /\ c_connected /\ c_protocol)
              => /\ tasks'[i].pc = "awaiting"
                 /\ Len(sent') = Len(sent) + 1]_vars

C32_Witness ==
    /\ c_connected
    /\ pend.why = "none"
    /\ \E i, j, k \in Callers :
        /\ tasks[i].pc = "done" /\ tasks[i].outcome = "TimeoutError"
        /\ tasks[j].pc = "done" /\ tasks[j].outcome = "ICCommandError"
        /\ tasks[k].pc = "done" /\ tasks[k].outcome = "ok"
        /\ i < k /\ j < k
        /\ tasks[k].got = tasks[k].req

(***************************************************************************)
(* C33: in ICConnection, keepalive requests that go unanswered are fatal   *)
(* to the connection: the connection is never left open with keepalive     *)
(* monitoring stopped, so while the connection is open its keepalive task  *)
(* is alive, and when the task has given up the connection is closed.      *)
(***************************************************************************)
C33_KeepaliveFatal ==
    (k_protocol /\ k_connected) => k_task \in KeepaliveLive

(***************************************************************************)
(* C35: every stored object has an object type that is in the tracked      *)
(* types allow-list and equal to the type it was created with, whatever    *)
(* sequence of addObject, update and processUpdates calls (updates that    *)
(* carry a type key included) has been applied: no step stores an object   *)
(* of another type or changes the type of a stored object.                 *)
(***************************************************************************)
C35_TypeTrackedAndFixed ==
    [][\A objnam \in DOMAIN objects' :
        /\ objects'[objnam].objtyp \in AttributeMap
        /\ objnam \in DOMAIN objects
              => objects'[objnam].objtyp = objects[objnam].objtyp]_vars

(***************************************************************************)
(* C36: a supervisor has a single logical connection: at every moment at   *)
(* most one transport opened by its controller is open, also when          *)
(* controller.start() fails after the TCP connection was established and   *)
(* is then retried.                                                        *)
(***************************************************************************)
\* the transports opened by the controller that are open: the one of the
\* last successful start(), those that failed or superseded start() calls
\* left behind, and those of the start() calls under way
OpenTransports ==
    (IF established THEN 1 ELSE 0) + leaked
        + Cardinality({k \in HTasks : htasks[k].pc = "requesting"})

C36_SingleConnection == OpenTransports <= 1

(***************************************************************************)
(* C39: at any time at most one reconnection loop is running for a         *)
(* handler: a disconnect notification that arrives while an earlier loop   *)
(* is still retrying or is inside a connection attempt never results in    *)
(* two concurrently active _starter tasks.                                 *)
(***************************************************************************)
\* the coroutines that are inside _starter and have not returned
ActiveStarters ==
    {k \in HTasks : htasks[k].pc # "free" /\ htasks[k].kind = "starter"}

C39_OneReconnectLoop == Cardinality(ActiveStarters) <= 1

(***************************************************************************)
(* C37: flow-control counter invariant: after any sequence of sendRequest, *)
(* responseReceived (spurious responses included), queue overflow and      *)
(* deadlock reset, the in-flight counter is never negative and either the  *)
(* counter is 0 and the wait queue is empty, or the counter equals the     *)
(* queue length plus 1; so a request is never left in the queue while      *)
(* nothing is in flight.                                                   *)
(***************************************************************************)
C37_CounterInvariant ==
    /\ fl_pending >= 0
    /\ \/ fl_pending = 0 /\ fl_queue = <<>>
       \/ fl_pending = Len(fl_queue) + 1

\* a spurious response: responseReceived with nothing pending
C37_Witness ==
    /\ fl_ev.op = "responseReceived"
    /\ fl_ev.was = 0
    /\ fl_pending = 0
    /\ fl_queue = <<>>
    /\ fl_next > 1

(***************************************************************************)
(* C38: when the wait queue already holds MAX_QUEUE_SIZE (100) requests,   *)
(* sendRequest drops the new request: nothing is written to the transport  *)
(* and the in-flight counter and the queue content are the same after the  *)
(* call as before it, so the queue length never exceeds 100.               *)
(***************************************************************************)
C38_DropWhenFull ==
    [][/\ (fl_ev'.op = "sendRequest" /\ Len(fl_queue) = MAX_QUEUE_SIZE)
            => /\ fl_ev'.wrote = <<>>
               /\ fl_pending' = fl_pending
               /\ fl_queue' = fl_queue
       /\ Len(fl_queue') <= MAX_QUEUE_SIZE]_vars

C38_Witness ==
    /\ fl_ev.op = "sendRequest"
    /\ fl_ev.had = MAX_QUEUE_SIZE
    /\ fl_ev.was = MAX_QUEUE_SIZE + 1
    /\ Len(fl_queue) = MAX_QUEUE_SIZE
    /\ fl_pending = MAX_QUEUE_SIZE + 1

(***************************************************************************)
(* C40: reconnection never gives up silently: while the handler is not     *)
(* stopped, every failed connection attempt, whatever error                *)
(* controller.start() ends with, is followed by another attempt, so after  *)
(* a failure some coroutine of the handler is waiting to retry or is       *)
(* attempting.                                                             *)
(***************************************************************************)
C40_NeverGivesUp ==
    (out.failed /\ ~stopped) => \E k \in HTasks : htasks[k].pc # "free"

====
